---- MODULE Spec2Model ----
(***************************************************************************)
(* A model of github.com/oblq/swap: the environment handler, the config    *)
(* file locator, the layered config parser with its struct-field tags and  *)
(* the recursive toolbox builder.                                           *)
(*                                                                         *)
(* Strings the code inspects character by character (file names, tags,     *)
(* regular expressions) are tuples of one-character strings.                *)
(***************************************************************************)
EXTENDS Integers, Sequences, FiniteSets, TLC

VARIABLES
    \* ---- EnvironmentHandler (environment.go)
    directEnvironmentTag,   \* Sources.directEnvironmentTag
    systemEnv,              \* os.Getenv(Sources.SystemEnvironmentTagKey)
    git,                    \* Sources.Git: NoGit or [Error, BranchName]
    args0IsTest,            \* testingRegexp.MatchString(os.Args[0])
    currentTAG,             \* EnvironmentHandler.currentTAG
    inferredBy,             \* Environment.inferredBy, per environment
    currentEnv,             \* what the last Current() returned (0: not called yet)
    environments,           \* EnvironmentHandler.environments
    created,                \* the Environment values that exist
    envPanic,               \* a call of NewEnvironment has panicked
    mutex,                  \* EnvironmentHandler.mutex: the thread holding it, 0 for none
    callers,                \* per thread: where its call of Current() stands
    \* ---- file location (appendEnvFiles)
    locNames,               \* the logical names passed by the caller
    locEnv,                 \* the *Environment passed (0 is nil)
    disk,                   \* the files and directories on the disk
    FileSearchCaseSensitive,\* the package variable of that name
    locIdx,                 \* the loop's position in locNames
    locFound,               \* foundFiles
    locErr,                 \* err
    locPc,                  \* "idle" (no call) | "loop" | "done"
    \* ---- Parse / ParseByEnv and parseConfigTags
    cfg,                    \* the destination: key -> value
    cfg0,                   \* the destination when Parse was called
    cfgFiles,               \* the located files, in order: each key -> value
    cfgIdx,                 \* the file loop's position
    cfgPc,                  \* "start" | "files" | "tags" | "done"
    cfgErr,                 \* the error Parse returns
    cfgTags,                \* key -> the tokens of its swapcp tag, in order
    osEnv,                  \* environment variables: name -> value
    cfgCall,                \* 1 during the first call of Parse, 2 during a second one
    cfgFirst,               \* the destination as the first call left it
    \* ---- Builder
    typeFactories,          \* Builder.typeFactories (the registered types)
    shape,                  \* the root struct type: node -> field description
    val,                    \* the root value: node -> value
    val0,                   \* the root value when Build was called
    toolBox,                \* the argument of Build, "" before the call
    stack,                  \* the call stack of Builder.build
    DebugOptions,           \* Builder.DebugOptions
    events,                 \* file lookups and New / FactoryFunc / Configure calls, in order
    status,                 \* node -> classification (state), "" before it is classified
    logs,                   \* the debug logs build returned to Build
    buildErr,               \* the error Build returns
    buildPc,                \* "idle" | "running" | "done" | "panic"
    \* ---- parseConfigTags over a nested destination
    nestType,               \* the type of the root's field C
    nestTags,               \* the tokens of C's own swapcp tag
    nest,                   \* the field Z of each struct held by C, in index order
    nest0,                  \* the same when parseConfigTags was called
    nestOrder,              \* the order in which a map's keys are ranged over
    nestErr,                \* the error parseConfigTags returns
    nestPc,                 \* "idle" | "field" | "recurse" | "done"
    \* ---- Builder.build over struct types that point to struct types
    recTypes,               \* struct type -> its pointer field and what the type implements
    recPreset,              \* the root's pointer field is non-nil when Build is called
    recStack,               \* the calls of build in progress: the struct type of each
    recPc,                  \* "idle" | "running" | "done" | "overflow"
    \* ---- Builder.mutex and the calls made from callbacks
    builderMutex,           \* Builder -> its mutex is locked
    calls                   \* the calls in progress on the goroutine, outermost first

envVars   == <<directEnvironmentTag, systemEnv, git, args0IsTest, currentTAG,
               inferredBy, currentEnv, environments, created, envPanic,
                   mutex, callers>>
locVars   == <<locNames, locEnv, disk, FileSearchCaseSensitive, locIdx, locFound,
               locErr, locPc>>
parseVars == <<cfg, cfg0, cfgFiles, cfgIdx, cfgPc, cfgErr, cfgTags, osEnv,
               cfgCall, cfgFirst>>
buildVars == <<typeFactories, shape, val, val0, toolBox, stack, DebugOptions, events,
               status, logs, buildErr, buildPc>>
nestVars  == <<nestType, nestTags, nest, nest0, nestOrder, nestErr, nestPc>>
recVars   == <<recTypes, recPreset, recStack, recPc>>
lockVars  == <<builderMutex, calls>>
moreVars  == <<nestVars, recVars, lockVars>>
vars      == <<envVars, locVars, parseVars, buildVars, moreVars>>

----------------------------------------------------------------------------
(* Characters and words                                                    *)

\* The characters in use, in byte order.
Alphabet == <<".", "/", "1", "T", "a", "b", "c", "d", "e", "f", "g", "h", "i",
              "j", "k", "l", "m", "n", "o", "p", "r", "s", "t", "u", "v", "x",
              "y">>

Ord(c) == CHOOSE i \in 1..Len(Alphabet) : Alphabet[i] = c

\* (?i): case folding.
Lower(c) == IF c = "T" THEN "t" ELSE c

Fold(s) == [i \in 1..Len(s) |-> Lower(s[i])]

\* strings.Contains: what an unanchored literal of a regexp matches.
Contains(s, w) ==
    \E i \in 1..(Len(s) - Len(w) + 1) : SubSeq(s, i, i + Len(w) - 1) = w

\* Byte-wise order of two names (the order filepath.Walk visits a directory in).
RECURSIVE LexLess(_, _)
LexLess(a, b) ==
    IF Len(b) = 0 THEN FALSE
    ELSE IF Len(a) = 0 THEN TRUE
    ELSE IF a[1] # b[1] THEN Ord(a[1]) < Ord(b[1])
    ELSE LexLess(Tail(a), Tail(b))

Empty == << >>
Wproduction  == <<"p","r","o","d","u","c","t","i","o","n">>
Wmaster      == <<"m","a","s","t","e","r">>
Wstaging     == <<"s","t","a","g","i","n","g">>
Wrelease     == <<"r","e","l","e","a","s","e">>
Whotfix      == <<"h","o","t","f","i","x">>
Wbugfix      == <<"b","u","g","f","i","x">>
Wtesting     == <<"t","e","s","t","i","n","g">>
Wtest        == <<"t","e","s","t">>
Wdevelopment == <<"d","e","v","e","l","o","p","m","e","n","t">>
Wdevelop     == <<"d","e","v","e","l","o","p">>
Wdev         == <<"d","e","v">>
Wfeature     == <<"f","e","a","t","u","r","e">>
Wlocal       == <<"l","o","c","a","l">>
Wv1          == <<"v","1">>
Wmain        == <<"m","a","i","n">>
Wserver1     == <<"s","e","r","v","e","r","1">>
Wdevbox      == <<"d","e","v","b","o","x">>

----------------------------------------------------------------------------
(* Environment                                                             *)

\* ^v(0|[1-9]+)(\\.(0|[1-9]+)+)?(\\.(\\*|(0|[1-9]+)+))?$ : the optional groups
\* need a backslash, which no tag of the model holds, so what is left is
\* ^v(0|[1-9]+)$ ; "1" is the only digit of the alphabet.
VersionMatch(s) ==
    /\ Len(s) >= 2
    /\ s[1] = "v"
    /\ \A i \in 2..Len(s) : s[i] = "1"

\* An Environment: its primary tag and its regexp, as the literals it is an
\* alternation of (release/* is "release" followed by any number of "/"),
\* whether it holds the version pattern, and whether it is .* (any text).
Env(tag, subs, version, any) ==
    [tag |-> tag, subs |-> subs, version |-> version, any |-> any]

DefaultEnvsTable == <<
    Env(Wproduction,  {Wproduction, Wmaster}, TRUE, FALSE),
    Env(Wstaging,     {Wstaging, Wrelease, Whotfix, Wbugfix}, FALSE, FALSE),
    Env(Wtesting,     {Wtesting, Wtest}, FALSE, FALSE),
    Env(Wdevelopment, {Wdevelopment, Wdevelop, Wdev, Wfeature}, FALSE, FALSE),
    Env(Wlocal,       {Wlocal}, FALSE, FALSE) >>

\* The (tag, regexp) pairs the program passes to NewEnvironment:
\* ("server1", `(server1)|(server1.*)`), ("devbox", `devbox`), ("", `.*`)
\* and ("main", `master`), whose regexp does not match its tag.
CustomEnvsTable == <<
    Env(Wserver1, {Wserver1}, FALSE, FALSE),
    Env(Wdevbox,  {Wdevbox}, FALSE, FALSE),
    Env(Empty,    {}, FALSE, TRUE),
    Env(Wmain,    {Wmaster}, FALSE, FALSE) >>

EnvsTable == DefaultEnvsTable \o CustomEnvsTable

\* Environments are named by their position in EnvsTable.
DefaultEnvs == 1..Len(DefaultEnvsTable)
CustomEnvs  == (Len(DefaultEnvsTable) + 1)..Len(EnvsTable)

Production  == 1
Staging     == 2
Testing     == 3
Development == 4
Local       == 5

\* defaultEnvs.Slice(): the environments a new handler is given.
DefaultEnvsSlice == <<Production, Staging, Testing, Development, Local>>

\* The alias that selects the development environment in place of its tag.
TagOrAlias(e) == IF e = 4 THEN <<"d","e","v">> ELSE EnvsTable[e].tag

\* Environment.Tag(): the primary tag.

Tag(e) == EnvsTable[e].tag

MatchTag(e, s) ==
    \/ \E w \in EnvsTable[e].subs : Contains(s, w)
    \/ EnvsTable[e].version /\ VersionMatch(s)
    \/ EnvsTable[e].any

----------------------------------------------------------------------------
(* EnvironmentHandler                                                      *)

NoGit == [configured |-> FALSE, Error |-> FALSE, BranchName |-> Empty]

\* The tags set by hand, found in BUILD_ENV or reported as the branch name.
TagValues == {Empty, Wproduction, Wstaging, Wdev, Wmain}

GitValues ==
    {NoGit} \cup
    [configured : {TRUE}, Error : BOOLEAN, BranchName : {Empty, Wmaster, Wfeature}]

\* The if / else-if chain of Current(): the candidate tag and its source.
\* currentTAG is assigned by the second condition whenever the first fails.
Candidate(direct, sysenv, g, isTest) ==
    IF Len(direct) > 0 THEN [tag |-> direct, by |-> "manual"]
    ELSE IF Len(sysenv) > 0 THEN [tag |-> sysenv, by |-> "env"]
    ELSE IF g.configured
         THEN IF ~g.Error THEN [tag |-> g.BranchName, by |-> "git"]
                          ELSE [tag |-> sysenv, by |-> ""]
    ELSE IF isTest THEN [tag |-> Tag(Testing), by |-> "test"]
    ELSE [tag |-> sysenv, by |-> "default"]

\* The loop over eh.environments started at its second element.
FirstMatchAfterHead(envs, tag) ==
    IF \A i \in 2..Len(envs) : ~MatchTag(envs[i], tag) THEN Local
    ELSE envs[CHOOSE i \in 2..Len(envs) :
                 /\ MatchTag(envs[i], tag)
                 /\ \A j \in 2..(i - 1) : ~MatchTag(envs[j], tag)]

\* The loop over eh.environments without its break: the last environment
\* matching the tag.
LastMatch(envs, tag) ==
    IF \A i \in 1..Len(envs) : ~MatchTag(envs[i], tag) THEN Local
    ELSE envs[CHOOSE i \in 1..Len(envs) :
                 /\ MatchTag(envs[i], tag)
                 /\ \A j \in (i + 1)..Len(envs) : ~MatchTag(envs[j], tag)]

\* The loop over eh.environments: the first environment matching the tag,
\* DefaultEnvs.Local when none does.
RECURSIVE FirstMatch(_, _)
FirstMatch(envs, tag) ==
    IF Len(envs) = 0 THEN Local
    ELSE IF MatchTag(Head(envs), tag) THEN Head(envs)
    ELSE FirstMatch(Tail(envs), tag)

\* Current() as a function of the sources.
Resolve(direct, sysenv, g, isTest) ==
    FirstMatch(environments, Candidate(direct, sysenv, g, isTest).tag)

\* The threads that call the handler.
Threads == {1, 2}

\* The handler of NewBuilder: the default environments, no custom one yet,
\* its mutex free and no call in progress.
NewHandler ==
    /\ environments = DefaultEnvsSlice
    /\ created = DefaultEnvs
    /\ envPanic = FALSE
    /\ mutex = 0
    /\ callers = [t \in Threads |-> [pc |-> "idle", by |-> ""]]

InitEnv ==
    /\ directEnvironmentTag = Empty
    /\ systemEnv \in {Empty, Wstaging}
    /\ git \in GitValues
    /\ args0IsTest \in BOOLEAN
    /\ currentTAG = Empty
    /\ inferredBy = [e \in 1..Len(EnvsTable) |-> ""]
    /\ currentEnv = 0
    /\ NewHandler

SetCurrent(tag) ==
    /\ directEnvironmentTag' = tag
    /\ UNCHANGED <<systemEnv, git, args0IsTest, currentTAG, inferredBy, currentEnv,
                   environments, created, envPanic,
                   mutex, callers>>

\* os.Setenv / os.Unsetenv of the variable named by SystemEnvironmentTagKey.
Setenv(v) ==
    /\ systemEnv' = v
    /\ UNCHANGED <<directEnvironmentTag, git, args0IsTest, currentTAG, inferredBy,
                   currentEnv, environments, created, envPanic,
                   mutex, callers>>

\* eh.Sources.Git = nil, or = NewGitRepository(path).
SetGit(g) ==
    /\ git' = g
    /\ UNCHANGED <<directEnvironmentTag, systemEnv, args0IsTest, currentTAG, inferredBy,
                   currentEnv, environments, created, envPanic,
                   mutex, callers>>

\* A Current() that goes on to the next source when the manual tag matches
\* no environment.
CurrentFallingThrough ==
    LET unmatched == \A i \in 1..Len(environments) :
                        ~MatchTag(environments[i], directEnvironmentTag)
        c == Candidate(IF unmatched THEN Empty ELSE directEnvironmentTag,
                       systemEnv, git, args0IsTest)
        e == FirstMatch(environments, c.tag)
    IN  /\ currentTAG' = c.tag
        /\ inferredBy' = [inferredBy EXCEPT ![Local] = c.by, ![e] = c.by]
        /\ currentEnv' = e
        /\ UNCHANGED <<directEnvironmentTag, systemEnv, git, args0IsTest, environments,
                       created, envPanic,
                   mutex, callers>>

Current ==
    LET c == Candidate(directEnvironmentTag, systemEnv, git, args0IsTest)
        e == FirstMatch(environments, c.tag)
    IN  /\ currentTAG' = c.tag
        \* env := DefaultEnvs.Local; env.inferredBy = inferredBy, then the match's
        /\ inferredBy' = [inferredBy EXCEPT ![Local] = c.by, ![e] = c.by]
        /\ currentEnv' = e
        /\ UNCHANGED <<directEnvironmentTag, systemEnv, git, args0IsTest, environments,
                       created, envPanic,
                   mutex, callers>>

\* Where a thread stands in Current(), with its local inferredBy.
At(pc, by) == [pc |-> pc, by |-> by]

\* Current() by thread t, statement by statement. eh.mutex.Lock():
CurrentLock(t) ==
    /\ callers[t].pc = "idle"
    /\ mutex = 0
    /\ mutex' = t
    /\ callers' = [callers EXCEPT ![t] = At("locked", "")]
    /\ UNCHANGED <<directEnvironmentTag, systemEnv, git, args0IsTest, currentTAG,
                   inferredBy, currentEnv, environments, created, envPanic>>

\* if len(eh.Sources.directEnvironmentTag) > 0: the first read of the manual
\* tag; the else-if chain when it is empty.
CurrentTest(t) ==
    /\ callers[t].pc = "locked"
    /\ IF Len(directEnvironmentTag) > 0
       THEN /\ callers' = [callers EXCEPT ![t] = At("copy", "")]
            /\ UNCHANGED currentTAG
       ELSE LET c == Candidate(Empty, systemEnv, git, args0IsTest)
            IN  /\ currentTAG' = c.tag
                /\ callers' = [callers EXCEPT ![t] = At("match", c.by)]
    /\ UNCHANGED <<directEnvironmentTag, systemEnv, git, args0IsTest, inferredBy,
                   currentEnv, environments, created, envPanic, mutex>>

\* eh.currentTAG = eh.Sources.directEnvironmentTag: the second read.
CurrentCopy(t) ==
    /\ callers[t].pc = "copy"
    /\ currentTAG' = directEnvironmentTag
    /\ callers' = [callers EXCEPT ![t] = At("match", "manual")]
    /\ UNCHANGED <<directEnvironmentTag, systemEnv, git, args0IsTest, inferredBy,
                   currentEnv, environments, created, envPanic, mutex>>

\* The loop over eh.environments, the return and the deferred Unlock().
CurrentReturn(t) ==
    /\ callers[t].pc = "match"
    /\ LET e == FirstMatch(environments, currentTAG)
       IN  /\ inferredBy' = [inferredBy EXCEPT ![Local] = callers[t].by,
                                                ![e] = callers[t].by]
           /\ currentEnv' = e
    /\ mutex' = 0
    /\ callers' = [callers EXCEPT ![t] = At("idle", "")]
    /\ UNCHANGED <<directEnvironmentTag, systemEnv, git, args0IsTest, currentTAG,
                   environments, created, envPanic>>

\* eh.SetCurrent(tag) by thread t: one write, eh.mutex is not taken.
SetCurrentBy(t, tag) ==
    /\ callers[t].pc = "idle"
    /\ SetCurrent(tag)

\* NewEnvironment without the check of the tag against the regexp.
NewEnvironmentUnchecked(e) ==
    /\ e \notin created
    /\ created' = created \cup {e}
    /\ UNCHANGED <<directEnvironmentTag, systemEnv, git, args0IsTest, currentTAG,
                   inferredBy, currentEnv, environments, envPanic,
                   mutex, callers>>

\* NewEnvironment(tag, regexp) with the e-th pair of EnvsTable: the value
\* exists when the call returns, and the call panics when the regexp does not
\* match the tag.
NewEnvironment(e) ==
    /\ e \notin created
    /\ IF MatchTag(e, Tag(e))
       THEN created' = created \cup {e} /\ UNCHANGED envPanic
       ELSE envPanic' = TRUE /\ UNCHANGED created
    /\ UNCHANGED <<directEnvironmentTag, systemEnv, git, args0IsTest, currentTAG,
                   inferredBy, currentEnv, environments, mutex, callers>>

\* eh = NewEnvironmentHandler(envs): a handler with no manual tag, no
\* current tag yet and the Git source g that NewGitRepository("./") finds.
NewEnvironmentHandler(envs, g) ==
    /\ environments' = envs
    /\ directEnvironmentTag' = Empty
    /\ currentTAG' = Empty
    /\ git' = g
    /\ UNCHANGED <<systemEnv, args0IsTest, inferredBy, currentEnv, created, envPanic,
                   mutex, callers>>


----------------------------------------------------------------------------
(* The disk and filepath helpers                                           *)

\* A disk entry: the directory it is in (a path, as its components), its name
\* and its kind ("file": regular file, "dir": directory).
Wconf == <<"c","o","n","f">>
Wsub  == <<"s","u","b">>
Wcfg  == <<"c","f","g">>
Wdb   == <<"d","b">>
Wyaml == <<"y","a","m","l">>
Wyml  == <<"y","m","l">>
Wtoml == <<"t","o","m","l">>
Wjson == <<"j","s","o","n">>
Dot   == <<".">>

File(d, n) == [dir |-> d, name |-> n, kind |-> "file"]
Dir(d, n)  == [dir |-> d, name |-> n, kind |-> "dir"]

\* filepath.Ext: the suffix of the name from its last dot, empty if there is none.
Ext(name) ==
    LET dots == {i \in 1..Len(name) : name[i] = "."}
    IN  IF dots = {} THEN Empty
        ELSE SubSeq(name, CHOOSE i \in dots : \A j \in dots : j <= i, Len(name))

\* strings.TrimSuffix(fileName, ext)
TrimSuffix(name, ext) == SubSeq(name, 1, Len(name) - Len(ext))

\* regexpValidExt: (?i)(.y(|a)ml|.toml|.json), as the alternatives it stands for.
regexpValidExt == {Dot \o Wyml, Dot \o Wyaml, Dot \o Wtoml, Dot \o Wjson}

\* regexp.MustCompile(fmt.Sprintf(format, extTrimmed, ext)): the stem, the
\* alternatives for the extension, and where (?i) applies. format is
\* "(?i)(^%s)%s$" unless FileSearchCaseSensitive, then "^%s%s$"; the extension
\* searched when none is given carries its own (?i).
Regex(extTrimmed, ext, caseSensitive) ==
    [stem     |-> extTrimmed,
     exts     |-> IF Len(ext) = 0 THEN regexpValidExt ELSE {ext},
     foldStem |-> ~caseSensitive,
     foldExt  |-> ~caseSensitive \/ Len(ext) = 0]

\* One pattern character against one character of the name: "." matches any.
AtomMatch(a, c, fold) ==
    \/ a = "."
    \/ a = c
    \/ fold /\ Lower(a) = Lower(c)

\* regex.MatchString(info.Name()) for the anchored patterns Regex builds.
MatchString(rx, name) ==
    \E e \in rx.exts :
        /\ Len(name) = Len(rx.stem) + Len(e)
        /\ \A i \in 1..Len(rx.stem) : AtomMatch(rx.stem[i], name[i], rx.foldStem)
        /\ \A i \in 1..Len(e) : AtomMatch(e[i], name[Len(rx.stem) + i], rx.foldExt)

\* The names of a set of entries in the order filepath.Walk visits them.
RECURSIVE SortNames(_)
SortNames(S) ==
    IF S = {} THEN << >>
    ELSE LET m == CHOOSE x \in S : \A y \in S \ {x} : LexLess(x, y)
         IN  <<m>> \o SortNames(S \ {m})

\* The regular files filepath.Walk hands to the callback without SkipDir, in
\* visiting order: a sub-directory is descended into only when its name is
\* filepath.Base(configPath).
RECURSIVE WalkDir(_, _, _)
RECURSIVE WalkEntries(_, _, _, _)
WalkDir(dk, d, base) ==
    WalkEntries(dk, d, base, SortNames({e.name : e \in {x \in dk : x.dir = d}}))

WalkEntries(dk, d, base, names) ==
    IF Len(names) = 0 THEN << >>
    ELSE LET n == Head(names)
             e == CHOOSE x \in dk : x.dir = d /\ x.name = n
             here == IF e.kind = "file" THEN <<File(d, n)>>
                     ELSE IF e.kind = "dir" /\ n = base
                          THEN WalkDir(dk, Append(d, n), base)
                          ELSE << >>
         IN  here \o WalkEntries(dk, d, base, Tail(names))

NoFile == [dir |-> << >>, name |-> Empty, kind |-> "none"]

\* WalkConfigPath: the last visited file whose name matches, NoFile (the empty
\* string) if none does or if configPath does not exist.
WalkConfigPath(dk, configPath, rx) ==
    LET exists == \E e \in dk : /\ e.kind = "dir"
                                   /\ Append(e.dir, e.name) = configPath
        seen == IF exists THEN WalkDir(dk, configPath, configPath[Len(configPath)])
                ELSE << >>
        hits == {i \in 1..Len(seen) : MatchString(rx, seen[i].name)}
    IN  IF hits = {} THEN NoFile
        ELSE seen[CHOOSE i \in hits : \A j \in hits : j <= i]


----------------------------------------------------------------------------
(* appendEnvFiles                                                          *)

\* A file path handed to appendEnvFiles, after filepath.Split: the directory
\* and the file name (with or without extension).
Name(d, n) == [dir |-> d, name |-> n]

\* The configuration path: ./conf.
ConfDir == <<Wconf>>

\* One iteration of the loop of appendEnvFiles, environment file first: the
\* two searches swapped.
EnvFilesOfSwapped(dk, file, env, caseSensitive) ==
    LET ext        == Ext(file.name)
        extTrimmed == TrimSuffix(file.name, ext)
        generic    == WalkConfigPath(dk, file.dir, Regex(extTrimmed, ext, caseSensitive))
        specific   == IF env = 0 THEN NoFile
                      ELSE WalkConfigPath(dk, file.dir,
                               Regex(extTrimmed \o Dot \o Tag(env), ext, caseSensitive))
    IN  (IF specific = NoFile THEN << >> ELSE <<specific>>)
        \o (IF generic = NoFile THEN << >> ELSE <<generic>>)

\* One iteration of the loop of appendEnvFiles: what it appends to the found
\* files for one file name (env = 0 is the nil *Environment).
EnvFilesOf(dk, file, env, caseSensitive) ==
    LET ext        == Ext(file.name)
        extTrimmed == TrimSuffix(file.name, ext)
        generic    == WalkConfigPath(dk, file.dir, Regex(extTrimmed, ext, caseSensitive))
        specific   == IF env = 0 THEN NoFile
                      ELSE WalkConfigPath(dk, file.dir,
                               Regex(extTrimmed \o Dot \o Tag(env), ext, caseSensitive))
    IN  (IF generic = NoFile THEN << >> ELSE <<generic>>)
        \o (IF specific = NoFile THEN << >> ELSE <<specific>>)

\* appendEnvFiles as a function: the files found, and whether it fails
\* ("no config file found"). filepath.Walk reports no error here: the callback
\* returns nil or SkipDir only.
RECURSIVE FoundFiles(_, _, _, _)
FoundFiles(dk, files, env, caseSensitive) ==
    IF Len(files) = 0 THEN << >>
    ELSE EnvFilesOf(dk, Head(files), env, caseSensitive)
         \o FoundFiles(dk, Tail(files), env, caseSensitive)

appendEnvFiles(dk, files, env, caseSensitive) ==
    LET found == FoundFiles(dk, files, env, caseSensitive)
    IN  [files |-> found, err |-> Len(found) = 0]

\* getConfigPathsByFieldTagFileNames: filepath.Join(fs.ConfigPath(), file) for
\* each name, then appendEnvFiles.
getConfigPathsByFieldTagFileNames(dk, configPath, names, env, caseSensitive) ==
    appendEnvFiles(dk,
        [i \in 1..Len(names) |-> Name(configPath \o names[i].dir, names[i].name)],
        env, caseSensitive)

(* The loop of appendEnvFiles, one iteration per step.                     *)

LocateStep ==
    /\ locPc = "loop"
    /\ locIdx <= Len(locNames)
    /\ locFound' = locFound \o
           EnvFilesOf(disk, locNames[locIdx], locEnv, FileSearchCaseSensitive)
    /\ locIdx' = locIdx + 1
    /\ UNCHANGED <<locNames, locEnv, disk, FileSearchCaseSensitive, locErr, locPc>>

\* The end of appendEnvFiles failing as soon as one name has no file.
LocateReturnAnyMissing ==
    /\ locPc = "loop"
    /\ locIdx > Len(locNames)
    /\ locErr' = \/ Len(locFound) = 0
                 \/ \E i \in 1..Len(locNames) :
                       EnvFilesOf(disk, locNames[i], locEnv,
                                  FileSearchCaseSensitive) = << >>
    /\ locPc' = "done"
    /\ UNCHANGED <<locNames, locEnv, disk, FileSearchCaseSensitive, locIdx, locFound>>

\* if err == nil && len(completeFilePathsPlusEnvFiles) == 0: the not-found
\* error, and the return.
LocateReturn ==
    /\ locPc = "loop"
    /\ locIdx > Len(locNames)
    /\ locErr' = (Len(locFound) = 0)
    /\ locPc' = "done"
    /\ UNCHANGED <<locNames, locEnv, disk, FileSearchCaseSensitive, locIdx, locFound>>


----------------------------------------------------------------------------
(* Parse / ParseByEnv                                                      *)

\* The destination is a struct { X int `swapcp:"..."`; Y string }: X carries
\* the tags, Y can hold a template placeholder.
Keys == <<"X", "Y">>

Placeholder == "{{.X}}"

\* A key the file does not mention.
Absent(k) == IF k = "X" THEN -1 ELSE "absent"

\* The zero value of a field's type.
Zero(k) == IF k = "X" THEN 0 ELSE ""

\* What a file can say about each key.
FileValues(k) == IF k = "X" THEN {Absent(k), 0, 1} ELSE {Absent(k), "a", Placeholder}

\* A located file: its decoded content (key -> value or Absent) and whether
\* it decodes ("ok"), is malformed ("corrupt"), has an extension none of
\* regexpYAML / regexpTOML / regexpJSON matches ("unknown"), or decodes but
\* makes parseTemplateFile return an error ("template": template.ParseFiles,
\* tpl.Execute or the decoding of the rendered text fails).
ConfigFile(x, y, kind) == [X |-> x, Y |-> y, kind |-> kind]

\* fmt's rendering of an int field by text/template.
Itoa(n) == IF n = 0 THEN "0" ELSE IF n = 1 THEN "1" ELSE "2"

\* A decoder that builds a fresh value: the keys the file does not mention
\* are reset to zero.
DecodeReplacing(data, dest) ==
    [k \in {"X", "Y"} |-> IF data[k] = Absent(k) THEN Zero(k) ELSE data[k]]

\* yaml.Unmarshal / toml.Decode / json.Unmarshal into an existing struct or
\* map: the keys of the document are written, the others are left alone.
Decode(data, dest) ==
    [k \in {"X", "Y"} |-> IF data[k] = Absent(k) THEN dest[k] ELSE data[k]]

\* tpl.Execute(&buf, config): the file's text with {{.X}} replaced by the
\* destination's X.
Render(data, config) ==
    [k \in {"X", "Y", "kind"} |->
        IF k = "Y" /\ data[k] = Placeholder THEN Itoa(config["X"]) ELSE data[k]]

\* yaml.Unmarshal of an environment variable or a default literal into the
\* int field X; BadInt stands for a decoding error.
BadInt == 0 - 2

YamlInt(text) ==
    IF text = "0" THEN 0
    ELSE IF text = "1" THEN 1
    ELSE IF text = "2" THEN 2
    ELSE BadInt

\* The tokens of a swapcp tag, after strings.Split(tag, ",") and
\* strings.Split(flag, "="): kv[0] and kv[1].
TokEnv      == [k |-> "env", v |-> "VAR"]
TokDefault  == [k |-> "default", v |-> "2"]
TokRequired == [k |-> "required", v |-> ""]

\* The body of the loop over tagFields for one flag, from the value fv: the
\* new value and the error returned, "" for none.
TagStep(tok, fv, name, environ) ==
    LET value   == environ
        afterEnv ==
            IF tok.k = "env" /\ value # "" THEN YamlInt(value) ELSE fv
        envErr  == tok.k = "env" /\ value # "" /\ YamlInt(value) = BadInt
        empty   == afterEnv = 0
    IN  IF envErr THEN [fv |-> fv, err |-> "decode"]
        ELSE IF empty /\ tok.k = "default"
             THEN IF YamlInt(tok.v) = BadInt THEN [fv |-> fv, err |-> "decode"]
                  ELSE [fv |-> YamlInt(tok.v), err |-> ""]
        ELSE IF empty /\ tok.k = "required"
             THEN [fv |-> afterEnv, err |-> "required"]
        ELSE [fv |-> afterEnv, err |-> ""]

\* The loop over tagFields: stops at the first error.
RECURSIVE TagLoop(_, _, _, _)
TagLoop(toks, fv, name, environ) ==
    IF Len(toks) = 0 THEN [fv |-> fv, err |-> ""]
    ELSE LET r == TagStep(Head(toks), fv, name, environ)
         IN  IF r.err # "" THEN r
             ELSE TagLoop(Tail(toks), r.fv, name, environ)

\* A Parse that starts from a fresh destination.
ParseStartResetting ==
    /\ cfgPc = "start"
    /\ IF Len(cfgFiles) = 0
       THEN cfgErr' = "nofile" /\ cfgPc' = "done"
       ELSE cfgErr' = "" /\ cfgPc' = "files"
    /\ cfg' = [k \in {"X", "Y"} |-> Zero(k)]
    /\ UNCHANGED <<cfg0, cfgFiles, cfgIdx, cfgTags, osEnv, cfgCall, cfgFirst>>

\* ParseByEnv up to the file loop: appendEnvFiles found nothing.
ParseStart ==
    /\ cfgPc = "start"
    /\ IF Len(cfgFiles) = 0
       THEN cfgErr' = "nofile" /\ cfgPc' = "done"
       ELSE cfgErr' = "" /\ cfgPc' = "files"
    /\ UNCHANGED <<cfg, cfg0, cfgFiles, cfgIdx, cfgTags, osEnv, cfgCall, cfgFirst>>

\* The loop body with the two passes swapped: the file is rendered against
\* the destination as it stood before this file was decoded.
ParseFileRenderFirst ==
    /\ cfgPc = "files"
    /\ cfgIdx <= Len(cfgFiles)
    /\ LET f      == cfgFiles[cfgIdx]
           second == Decode(Render(f, cfg), cfg)
       IN  IF f.kind = "ok"
           THEN /\ cfg' = second
                /\ cfgIdx' = cfgIdx + 1
                /\ UNCHANGED <<cfgErr, cfgPc>>
           ELSE /\ cfgErr' = f.kind
                /\ cfgPc' = "done"
                /\ UNCHANGED <<cfg, cfgIdx>>
    /\ UNCHANGED <<cfg0, cfgFiles, cfgTags, osEnv, cfgCall, cfgFirst>>

\* One iteration of the loop over the files: unmarshalFile, then
\* parseTemplateFile (render the file against the destination, decode again).
\* An error of unmarshalFile returns before anything is written; an error of
\* parseTemplateFile returns after the first decode has been written.
ParseFile ==
    /\ cfgPc = "files"
    /\ cfgIdx <= Len(cfgFiles)
    /\ LET f      == cfgFiles[cfgIdx]
           first  == Decode(f, cfg)
           second == Decode(Render(f, first), first)
       IN  IF f.kind = "ok"
           THEN /\ cfg' = second
                /\ cfgIdx' = cfgIdx + 1
                /\ UNCHANGED <<cfgErr, cfgPc>>
           ELSE /\ cfgErr' = f.kind
                /\ cfgPc' = "done"
                /\ cfg' = IF f.kind = "template" THEN first ELSE cfg
                /\ UNCHANGED cfgIdx
    /\ UNCHANGED <<cfg0, cfgFiles, cfgTags, osEnv, cfgCall, cfgFirst>>

\* return parseConfigTags(config): the fields in order, X being the tagged one.
ParseTags ==
    /\ cfgPc = "files"
    /\ cfgIdx > Len(cfgFiles)
    /\ LET r == TagLoop(cfgTags, cfg["X"], "X", osEnv)
       IN  /\ cfg' = [cfg EXCEPT !["X"] = r.fv]
           /\ cfgErr' = r.err
    /\ cfgPc' = "done"
    /\ UNCHANGED <<cfg0, cfgFiles, cfgIdx, cfgTags, osEnv, cfgCall, cfgFirst>>

\* The caller passes the destination a successful Parse has populated to
\* Parse again, with the same files, tags and environment variables.
ParseAgain ==
    /\ cfgPc = "done"
    /\ cfgErr = ""
    /\ cfgCall = 1
    /\ cfgCall' = 2
    /\ cfgFirst' = cfg
    /\ cfg0' = cfg
    /\ cfgIdx' = 1
    /\ cfgPc' = "start"
    /\ UNCHANGED <<cfg, cfgFiles, cfgErr, cfgTags, osEnv>>


----------------------------------------------------------------------------
(* parseConfigTags over nested containers                                  *)

\* The destination is a struct { C <container> `swapcp:"..."` } whose
\* container holds structs of the type Inner { Z int `swapcp:"..."` }. The
\* type of C: kind is the kind below its pointers ("struct" for Inner,
\* "slice" for []E, "map" for map[string]E), stars the number of leading
\* '*', elemStars the number of '*' of the element type E (Inner or *Inner).
NestType(kind, stars, elemStars) ==
    [kind |-> kind, stars |-> stars, elemStars |-> elemStars]

NestTypes ==
    {NestType("struct", s, 0) : s \in 0..1}
    \cup {NestType(k, s, e) : k \in {"slice", "map"}, s \in 0..1, e \in 0..1}

\* The field Z of a struct a nil pointer would point to.
NilPtr == 0 - 1

\* reflect.Indirect(reflect.ValueOf(elem)) for an elem whose type has
\* `stars` leading '*': one pointer is followed, and what a pointer leads
\* to is addressable; a value handed over in an interface is not.
Indirect(stars) ==
    [stars |-> IF stars > 0 THEN stars - 1 ELSE 0, canAddr |-> stars > 0]

\* elemValue.Kind()
KindOf(kind, stars) == IF stars > 0 THEN "ptr" ELSE kind

NotProcessed(z) == [fv |-> z, err |-> ""]

\* parseConfigTags(elem) for an elem of the type Inner behind `stars`
\* pointers, z being the field Z of the struct at the end of them: the
\* switch has no case for reflect.Ptr, and a field that cannot be addressed
\* is passed over.
parseConfigTagsInner(stars, z, toks, environ) ==
    LET elemValue == Indirect(stars)
    IN  IF z = NilPtr THEN NotProcessed(z)
        ELSE IF KindOf("struct", elemValue.stars) # "struct" THEN NotProcessed(z)
        ELSE IF ~elemValue.canAddr THEN NotProcessed(z)
        ELSE TagLoop(toks, z, "Z", environ)

\* The loops of the cases reflect.Slice and reflect.Map: the elements in the
\* given order, each handed to parseConfigTags behind `stars` pointers; the
\* first error returns.
RECURSIVE parseConfigTagsElems(_, _, _, _, _)
parseConfigTagsElems(stars, zs, order, toks, environ) ==
    IF Len(order) = 0 THEN [zs |-> zs, err |-> ""]
    ELSE LET i == Head(order)
             r == parseConfigTagsInner(stars, zs[i], toks, environ)
         IN  IF r.err # "" THEN [zs |-> [zs EXCEPT ![i] = r.fv], err |-> r.err]
             ELSE parseConfigTagsElems(stars, [zs EXCEPT ![i] = r.fv],
                                       Tail(order), toks, environ)

\* parseConfigTags(fv.Addr().Interface()) for the field C: the elem is a
\* pointer to the field. A slice hands over elemValue.Index(i).Addr(), a
\* pointer to the element; a map hands over elemValue.MapIndex(key), the
\* element itself.
parseConfigTagsField(typ, zs, order, toks, environ) ==
    LET elemValue == Indirect(typ.stars + 1)
        kind      == KindOf(typ.kind, elemValue.stars)
    IN  IF kind = "struct"
        THEN LET r == parseConfigTagsInner(typ.stars + 1, zs[1], toks, environ)
             IN  [zs |-> <<r.fv>>, err |-> r.err]
        ELSE IF kind = "slice"
        THEN parseConfigTagsElems(typ.elemStars + 1, zs,
                                  [i \in 1..Len(zs) |-> i], toks, environ)
        ELSE IF kind = "map"
        THEN parseConfigTagsElems(typ.elemStars, zs, order, toks, environ)
        ELSE [zs |-> zs, err |-> ""]

\* reflect.DeepEqual(fv.Interface(), reflect.Zero(fv.Type()).Interface())
\* for the field C: a zero struct, a nil pointer, a nil slice or map.
NestEmpty(typ, zs) ==
    IF typ.kind = "struct" THEN zs[1] = (IF typ.stars > 0 THEN NilPtr ELSE 0)
    ELSE typ.stars = 0 /\ Len(zs) = 0

\* The loop over the tagFields of C: `required` on an empty container.
NestField ==
    /\ nestPc = "field"
    /\ IF Len(nestTags) > 0 /\ NestEmpty(nestType, nest)
       THEN nestErr' = "required" /\ nestPc' = "done"
       ELSE nestErr' = "" /\ nestPc' = "recurse"
    /\ UNCHANGED <<nestType, nestTags, nest, nest0, nestOrder, cfgTags, osEnv>>

\* switch fv.Kind() { case Ptr, Struct, Slice, Map: parseConfigTags(...) },
\* C being the last field of the root.
NestRecurse ==
    /\ nestPc = "recurse"
    /\ \E r \in {parseConfigTagsField(nestType, nest, nestOrder, cfgTags, osEnv)} :
          /\ nest' = r.zs
          /\ nestErr' = r.err
    /\ nestPc' = "done"
    /\ UNCHANGED <<nestType, nestTags, nest0, nestOrder, cfgTags, osEnv>>


----------------------------------------------------------------------------
(* Builder                                                                 *)

\* The toolbox: a root struct with the fields A and B, A with the fields A1
\* and A2, A1 with the field A11. Nodes are numbered in declaration order,
\* depth first; 0 is the root.
Nodes  == 1..5
Parent == <<0, 1, 2, 1, 0>>

\* The fields of a node, in declaration order.
Children(n) ==
    LET kids == {c \in Nodes : Parent[c] = n}
        RECURSIVE Asc(_)
        Asc(S) == IF S = {} THEN << >>
                  ELSE LET m == CHOOSE x \in S : \A y \in S : x <= y
                       IN  <<m>> \o Asc(S \ {m})
    IN  Asc(kids)

RECURSIVE IsUnder(_, _)
\* n is a descendant of a.
IsUnder(n, a) ==
    IF n = 0 THEN FALSE
    ELSE Parent[n] = a \/ IsUnder(Parent[n], a)

\* A field: its kind ("struct", "ptr": pointer to struct, "prim": any other
\* kind), its swap tag (skip: "-", extra: an additional file name), whether
\* it is anonymous, whether it can be set (exported), what its type implements
\* and the type registered factories are looked up by.
Field(kind, skipTag, extra, anon, canSet, isFactory, isConfigurable, typ) ==
    [kind |-> kind, skipTag |-> skipTag, extra |-> extra, anon |-> anon,
     canSet |-> canSet, isFactory |-> isFactory,
     isConfigurable |-> isConfigurable, typ |-> typ]

ConfigurableStruct == Field("struct", FALSE, FALSE, FALSE, TRUE, FALSE, TRUE, "T1")
ConfigurablePtr    == Field("ptr", FALSE, TRUE, FALSE, TRUE, FALSE, TRUE, "T1")
FactoryStruct      == Field("struct", FALSE, TRUE, FALSE, TRUE, TRUE, TRUE, "T2")
FactoryPtr         == Field("ptr", FALSE, FALSE, FALSE, TRUE, TRUE, FALSE, "T2")
PlainStruct        == Field("struct", FALSE, FALSE, FALSE, TRUE, FALSE, FALSE, "T3")
SkippedPtr         == Field("ptr", TRUE, FALSE, FALSE, TRUE, FALSE, TRUE, "T1")
SkippedStruct      == Field("struct", TRUE, FALSE, FALSE, TRUE, TRUE, FALSE, "T2")
AnonymousStruct    == Field("struct", FALSE, FALSE, TRUE, TRUE, FALSE, TRUE, "T1")
UnexportedPtr      == Field("ptr", FALSE, FALSE, FALSE, FALSE, FALSE, TRUE, "T1")
Primitive          == Field("prim", FALSE, FALSE, FALSE, TRUE, FALSE, FALSE, "T4")
PrimitiveFactory   == Field("prim", FALSE, FALSE, FALSE, TRUE, TRUE, FALSE, "T5")

\* The types a FactoryFunc is registered for.
RegistrableTypes == {"T1", "T2"}

\* sf.Name, and the file added by the swap tag.
FieldName(n) == <<<<"a">>, <<"b">>, <<"c">>, <<"d">>, <<"e">>>>[n]

\* parseTags: the field's name, then the names of its tag.
ConfigFileNames(n) ==
    <<Name(<< >>, FieldName(n))>>
    \o (IF shape[n].extra THEN <<Name(<< >>, <<"x">>)>> ELSE << >>)

NoErr == [op |-> "", n |-> 0]
Err(op, n) == [op |-> op, n |-> n]
Event(n, op, res) == [n |-> n, op |-> op, res |-> res]
Log(n, st) == [n |-> n, st |-> st]

\* A call of Builder.build: the field, where the call stands ("enter",
\* "fields": the loop over the sub-fields, at index i) and its subLogs.
Frame(n, pc) == [n |-> n, pc |-> pc, i |-> 1, subLogs |-> << >>]

Top == stack[Len(stack)]

\* b.EnvHandler.Current() and the file lookup for a field.
Lookup(n) ==
    getConfigPathsByFieldTagFileNames(disk, ConfDir, ConfigFileNames(n),
        Resolve(directEnvironmentTag, systemEnv, git, args0IsTest),
        FileSearchCaseSensitive)

\* The construction strategy with the registered factory looked up first.
StrategyRegisteredFirst(n) ==
    IF shape[n].typ \in typeFactories THEN "FactoryFunc"
    ELSE IF shape[n].isFactory THEN "New"
    ELSE "none"

\* The if / else-if chain of setField: the Factory interface of the field,
\* else the FactoryFunc registered for its type, else neither.
Strategy(n) ==
    IF shape[n].isFactory THEN "New"
    ELSE IF shape[n].typ \in typeFactories THEN "FactoryFunc"
    ELSE "none"

\* A branch of setField's chain that drops the instance it made.
MakeNotSet(n, v, op, r) ==
    IF Lookup(n).err
    THEN [state |-> "", err |-> Err("lookup", n), val |-> v,
          ev |-> <<Event(n, "lookup", "err")>>, cur |-> TRUE]
    ELSE [state |-> IF r # "ok" THEN ""
                    ELSE IF op = "New" THEN "madeFromInterface"
                    ELSE "madeFromRegisteredFactory",
          err |-> IF r = "err" THEN Err(op, n)
                  ELSE IF r = "wrong" THEN Err("type", n) ELSE NoErr,
          val |-> v,
          ev |-> <<Event(n, "lookup", "ok"), Event(n, op, r)>>, cur |-> TRUE]

\* A branch of setField's chain that reports no state for the instance it
\* made and set.
MakeUnreported(n, v, op, r) ==
    IF Lookup(n).err
    THEN [state |-> "", err |-> Err("lookup", n), val |-> v,
          ev |-> <<Event(n, "lookup", "err")>>, cur |-> TRUE]
    ELSE [state |-> "",
          err |-> IF r = "err" THEN Err(op, n)
                  ELSE IF r = "wrong" THEN Err("type", n) ELSE NoErr,
          val |-> IF r = "ok" THEN [v EXCEPT ![n] = IF op = "New" THEN "new" ELSE "reg"]
                  ELSE v,
          ev |-> <<Event(n, "lookup", "ok"), Event(n, op, r)>>, cur |-> TRUE]

\* One branch of setField's chain: the lookup, the call (r is what the
\* callback does: "ok", "err", or "wrong" for an instance of another type)
\* and the assignment.
Make(n, v, op, r) ==
    IF Lookup(n).err
    THEN [state |-> "", err |-> Err("lookup", n), val |-> v,
          ev |-> <<Event(n, "lookup", "err")>>, cur |-> TRUE]
    ELSE IF r = "err"
    THEN [state |-> "", err |-> Err(op, n), val |-> v,
          ev |-> <<Event(n, "lookup", "ok"), Event(n, op, "err")>>, cur |-> TRUE]
    ELSE IF r = "wrong"
    THEN [state |-> "", err |-> Err("type", n), val |-> v,
          ev |-> <<Event(n, "lookup", "ok"), Event(n, op, "wrong")>>, cur |-> TRUE]
    ELSE [state |-> IF op = "New" THEN "madeFromInterface"
                    ELSE "madeFromRegisteredFactory",
          err |-> NoErr,
          val |-> [v EXCEPT ![n] = IF op = "New" THEN "new" ELSE "reg"],
          ev |-> <<Event(n, "lookup", "ok"), Event(n, op, "ok")>>, cur |-> TRUE]

\* The zero-value test without its condition.
IsZeroAlways(v, n) == TRUE

\* reflect.DeepEqual(zero, fv.Interface()): the field holds its zero value.
IsZero(v, n) == v[n] = "zero"

\* setField for a non-root field whose value is v[n].
setField(n, v, r) ==
    LET quiet(st) == [state |-> st, err |-> NoErr, val |-> v, ev |-> << >>,
                      cur |-> FALSE]
    IN  IF ~shape[n].canSet \/ shape[n].anon THEN quiet("skipped")
        ELSE IF ~IsZero(v, n) THEN quiet("alreadyConfigured")
        ELSE IF shape[n].skipTag THEN quiet("skipped")
        ELSE IF Strategy(n) = "none" THEN quiet("")
        ELSE Make(n, v, Strategy(n), r)

\* The reflect.Ptr case without the lookup of the skip tag.
PtrCaseTagIgnored(n) ==
    IF ~shape[n].canSet THEN "skipped"
    ELSE IF shape[n].anon THEN "skipped"
    ELSE IF val[n] # "nil" THEN "alreadyConfigured"
    ELSE ""

\* The reflect.Ptr case of build up to the allocation: what it returns at
\* once ("skipped", "alreadyConfigured"), "" when it allocates and goes on.
PtrCase(n) ==
    IF ~shape[n].canSet THEN "skipped"
    ELSE IF shape[n].skipTag THEN "skipped"
    ELSE IF shape[n].anon THEN "skipped"
    ELSE IF val[n] # "nil" THEN "alreadyConfigured"
    ELSE ""

\* The logs of the frames below the failing call, as each returns
\* append(logs, subLogs...) with the error.
RECURSIVE Unwound(_, _)
Unwound(stk, retLogs) ==
    IF Len(stk) = 0 THEN retLogs
    ELSE Unwound(SubSeq(stk, 1, Len(stk) - 1), stk[Len(stk)].subLogs \o retLogs)

\* A child error that the loop over the sub-fields does not return.
ChildFailedIgnored(err) == FALSE

\* if err != nil { ... return logs, err } after a call of build on a sub-field.
ChildFailed(err) == err # NoErr

\* A loop over the sub-fields that ends after the first one.
LoopDoneAfterFirst(fr) == fr.i > 1 \/ Len(Children(fr.n)) = 0

\* for i := 0; i < fv.NumField(); i++: the loop has visited every sub-field.
LoopDone(fr) == fr.i > Len(Children(fr.n))

\* What Build does once build has returned: the debug output, which calls
\* Current() and dereferences Sources.Git.
Finish(retLogs, err, cur) ==
    /\ stack' = << >>
    /\ logs' = retLogs
    /\ buildErr' = err
    /\ IF DebugOptions.Enabled
       THEN /\ Current
            /\ buildPc' = IF git.configured THEN "done" ELSE "panic"
       ELSE /\ IF cur THEN Current ELSE UNCHANGED envVars
            /\ buildPc' = "done"

\* The call of build at the top of the stack returns (retLogs, err) to its
\* caller: the loop of the enclosing build, or Build.
Return(retLogs, err, cur) ==
    LET below == SubSeq(stack, 1, Len(stack) - 1)
    IN  IF Len(below) = 0 THEN Finish(retLogs, err, cur)
        ELSE IF ChildFailed(err) THEN Finish(Unwound(below, retLogs), err, cur)
        ELSE /\ stack' = [below EXCEPT ![Len(below)] =
                             [@ EXCEPT !.i = @ + 1, !.subLogs = @ \o retLogs]]
             /\ IF cur THEN Current ELSE UNCHANGED envVars
             /\ UNCHANGED <<logs, buildErr, buildPc>>

RegisterType(t) ==
    /\ buildPc = "idle"
    /\ typeFactories' = typeFactories \cup {t}
    /\ UNCHANGED <<shape, val, val0, toolBox, stack, DebugOptions, events, status,
                   logs, buildErr, buildPc, envVars>>

\* What Build can be given: a pointer to the toolbox struct ("struct"), a
\* nil struct pointer ("nil"), a pointer to something that is not a struct
\* ("other"), a value that is not a pointer ("value"), a nil interface
\* ("nilinterface").
RootArgs == {"struct", "nil", "other", "value", "nilinterface"}

\* Build(toolBox) up to the call of build. reflect.TypeOf(toolBox).Elem()
\* and reflect.ValueOf(toolBox).Elem() panic when toolBox is not a pointer
\* or is a nil interface.
Build(arg) ==
    /\ buildPc = "idle"
    /\ val0' = val
    /\ toolBox' = arg
    /\ IF arg = "struct"
       THEN /\ stack' = <<[Frame(0, "fields") EXCEPT !.i = 1]>>
            /\ buildPc' = "running"
            /\ buildErr' = NoErr
       ELSE IF arg \in {"value", "nilinterface"}
       THEN /\ stack' = << >>
            /\ buildPc' = "panic"
            /\ buildErr' = NoErr
       ELSE /\ stack' = << >>
            /\ buildPc' = "done"
            /\ buildErr' = Err("root", 0)
    /\ UNCHANGED <<typeFactories, shape, val, DebugOptions, events, status, logs,
                   envVars>>

\* build(sf, fv, level) on a field, up to the loop over its sub-fields.
Enter(r) ==
    /\ buildPc = "running"
    /\ Top.pc = "enter"
    /\ LET n     == Top.n
           early == IF shape[n].kind = "ptr" THEN PtrCase(n) ELSE ""
           \* fv.Set(reflect.New(fv.Type().Elem()))
           v     == IF shape[n].kind = "ptr" /\ early = ""
                    THEN [val EXCEPT ![n] = "zero"] ELSE val
           hide(st) == st = "skipped" /\ DebugOptions.HideSkipped
       IN  IF early # ""
           THEN /\ status' = [status EXCEPT ![n] = early]
                /\ UNCHANGED <<val, events>>
                /\ Return(IF hide(early) THEN << >> ELSE <<Log(n, early)>>,
                          NoErr, FALSE)
           ELSE \E sf \in {setField(n, v, r)} :
                /\ val' = sf.val
                /\ events' = events \o sf.ev
                /\ IF shape[n].kind = "prim"
                   THEN /\ status' = [status EXCEPT ![n] =
                                         IF sf.err # NoErr THEN "error"
                                         ELSE IF sf.state = "" THEN "zero"
                                         ELSE sf.state]
                        /\ Return(<< >>, sf.err, sf.cur)
                   ELSE IF sf.state = "skipped"
                   THEN /\ status' = [status EXCEPT ![n] = sf.state]
                        /\ Return(IF hide(sf.state) THEN << >>
                                  ELSE <<Log(n, sf.state)>>, sf.err, sf.cur)
                   ELSE IF sf.err # NoErr \/ sf.state # ""
                   THEN /\ status' = [status EXCEPT ![n] =
                                         IF sf.err # NoErr THEN "error" ELSE sf.state]
                        /\ Return(<<Log(n, IF sf.err # NoErr THEN "error"
                                           ELSE sf.state)>>, sf.err, sf.cur)
                   ELSE /\ stack' = [stack EXCEPT ![Len(stack)].pc = "fields"]
                        /\ UNCHANGED <<status, logs, buildErr, buildPc, envVars>>
    /\ UNCHANGED <<typeFactories, shape, val0, toolBox, DebugOptions>>

\* The loop over the sub-fields: the call of build on the next one.
NextField ==
    /\ buildPc = "running"
    /\ Top.pc = "fields"
    /\ ~LoopDone(Top)
    /\ stack' = Append(stack, Frame(Children(Top.n)[Top.i], "enter"))
    /\ UNCHANGED <<typeFactories, shape, val, val0, toolBox, DebugOptions, events,
                   status, logs, buildErr, buildPc, envVars>>

\* After the loop: the root returns; a field is configured if it implements
\* Configurable (r is what Configure does: "ok" or "err").
Configure(r) ==
    /\ buildPc = "running"
    /\ Top.pc = "fields"
    /\ LoopDone(Top)
    /\ LET n == Top.n
           sub == Top.subLogs
       IN  IF n = 0
           THEN /\ Return(sub, NoErr, FALSE)
                /\ UNCHANGED <<val, events, status>>
           ELSE IF ~shape[n].isConfigurable
           THEN /\ status' = [status EXCEPT ![n] =
                                 IF Len(sub) > 0 THEN "traversing" ELSE "unhandled"]
                /\ Return(IF Len(sub) > 0 THEN <<Log(n, "traversing")>> \o sub
                          ELSE IF ~DebugOptions.HideUnhandled
                               THEN <<Log(n, "unhandled")>> ELSE << >>,
                          NoErr, FALSE)
                /\ UNCHANGED <<val, events>>
           ELSE IF Lookup(n).err
           THEN /\ events' = Append(events, Event(n, "lookup", "err"))
                /\ status' = [status EXCEPT ![n] = "error"]
                /\ Return(<<Log(n, "error")>>, Err("lookup", n), TRUE)
                /\ UNCHANGED val
           ELSE IF r = "err"
           THEN /\ events' = events \o <<Event(n, "lookup", "ok"),
                                          Event(n, "Configure", "err")>>
                /\ status' = [status EXCEPT ![n] = "error"]
                /\ Return(<<Log(n, "error")>>, Err("Configure", n), TRUE)
                /\ UNCHANGED val
           ELSE /\ events' = events \o <<Event(n, "lookup", "ok"),
                                          Event(n, "Configure", "ok")>>
                /\ status' = [status EXCEPT ![n] = "configured"]
                /\ val' = [val EXCEPT ![n] = "cfg"]
                /\ Return(<<Log(n, "configured")>> \o sub, NoErr, TRUE)
    /\ UNCHANGED <<typeFactories, shape, val0, toolBox, DebugOptions>>


----------------------------------------------------------------------------
(* Builder.build over recursive struct types                               *)

\* The struct types of the program: each has at most one field, a pointer
\* to a struct type (0: no such field). Type 1 is the root's.
StructTypes == 1..3

\* A struct type: the type its pointer field points to, whether the field is
\* tagged `swap:"-"`, and whether the type implements Factory or has a
\* FactoryFunc registered.
StructType(field, skipTag, made) ==
    [field |-> field, skipTag |-> skipTag, made |-> made]

\* The depth at which the goroutine's stack reaches its limit and the
\* runtime ends the program ("goroutine stack exceeds 1000000000-byte limit").
MaxDepth == 4

\* A call of build on a struct of the type t, before (i = 1) or after (i = 2)
\* the loop over its fields has visited the pointer field.
RecFrame(t, i) == [typ |-> t, i |-> i]

\* Build(&root): build(nil, v, 0) on the root struct.
RecBuild ==
    /\ recPc = "idle"
    /\ recStack' = <<RecFrame(1, 1)>>
    /\ recPc' = "running"
    /\ UNCHANGED <<recTypes, recPreset>>

\* The loop of the struct case reaches the pointer field: build's
\* reflect.Ptr case on it (skip tag, non-nil, else allocate and call build
\* on the pointee), then the struct case on the pointee up to its own loop
\* (setField: a fresh struct is zero and settable; a factory makes it, r
\* being what the factory does; otherwise build goes on into its fields).
RecField(r) ==
    /\ recPc = "running"
    /\ recStack[Len(recStack)].i = 1
    /\ LET top    == recStack[Len(recStack)]
           t      == recTypes[top.typ]
           passed == [recStack EXCEPT ![Len(recStack)].i = 2]
       IN  /\ t.field # 0
           /\ IF t.skipTag \/ (Len(recStack) = 1 /\ recPreset)
              THEN recStack' = passed /\ recPc' = recPc
              ELSE IF recTypes[t.field].made
              THEN IF r = "ok"
                   THEN recStack' = passed /\ recPc' = recPc
                   ELSE recStack' = << >> /\ recPc' = "done"
              ELSE IF Len(recStack) = MaxDepth
              THEN recStack' = recStack /\ recPc' = "overflow"
              ELSE /\ recStack' = Append(passed, RecFrame(t.field, 1))
                   /\ recPc' = recPc
    /\ UNCHANGED <<recTypes, recPreset>>

\* The loop over the fields is over: build configures the struct if it can
\* and returns to its caller; the root's build returns to Build.
RecReturn ==
    /\ recPc = "running"
    /\ LET top == recStack[Len(recStack)]
       IN  top.i = 2 \/ recTypes[top.typ].field = 0
    /\ recStack' = SubSeq(recStack, 1, Len(recStack) - 1)
    /\ recPc' = IF Len(recStack) = 1 THEN "done" ELSE recPc
    /\ UNCHANGED <<recTypes, recPreset>>


----------------------------------------------------------------------------
(* Builder.mutex                                                           *)

\* The Builders of the program.
Builders == 1..2

\* The methods of Builder that lock b.mutex, and Parse / ParseByEnv, which
\* are package functions and lock nothing of a Builder.
LockingOps == {"Build", "RegisterType", "WithCustomEnvHandler"}
Ops == LockingOps \cup {"Parse"}

\* The callbacks Build runs while it holds the mutex.
Callbacks == {"New", "FactoryFunc", "Configure"}

\* The calls a goroutine nests at most.
MaxNesting == 3

\* A call: the operation, the Builder it is called on, the callback of the
\* enclosing Build it is called from ("" for a call of the program itself)
\* and whether it holds the mutex ("holding"), waits in b.mutex.Lock()
\* ("waiting") or runs without one ("running").
Call(op, b, from, state) == [op |-> op, b |-> b, from |-> from, state |-> state]

\* A mutex that lets its holder's goroutine in again.
LockedForOthers(m, b) == FALSE

\* sync.Mutex is locked: Lock() blocks, whoever holds it.
Locked(m, b) == m[b]

\* The program, or a callback of the Build at the top, calls op on b:
\* b.mutex.Lock() for the methods of Builder.
Invoke(op, b, from) ==
    /\ Len(calls) < MaxNesting
    /\ IF Len(calls) = 0 THEN from = ""
       ELSE /\ from \in Callbacks
            /\ calls[Len(calls)].op = "Build"
            /\ calls[Len(calls)].state = "holding"
    /\ IF op \notin LockingOps
       THEN /\ calls' = Append(calls, Call(op, b, from, "running"))
            /\ UNCHANGED builderMutex
       ELSE IF Locked(builderMutex, b)
       THEN /\ calls' = Append(calls, Call(op, b, from, "waiting"))
            /\ UNCHANGED builderMutex
       ELSE /\ calls' = Append(calls, Call(op, b, from, "holding"))
            /\ builderMutex' = [builderMutex EXCEPT ![b] = TRUE]

\* The call at the top returns: defer b.mutex.Unlock() for the methods of
\* Builder. A call waiting in Lock() does not return.
Finished ==
    /\ Len(calls) > 0
    /\ calls[Len(calls)].state # "waiting"
    /\ calls' = SubSeq(calls, 1, Len(calls) - 1)
    /\ builderMutex' = IF calls[Len(calls)].state = "holding"
                       THEN [builderMutex EXCEPT ![calls[Len(calls)].b] = FALSE]
                       ELSE builderMutex


----------------------------------------------------------------------------
(* Initial states and specifications                                       *)

MaxNames == 2
MaxFiles == 2

\* Sequences over S of length 0..n.
SeqsUpTo(S, n) == UNION {[1..m -> S] : m \in 0..n}

IdleEnv ==
    /\ directEnvironmentTag = Empty
    /\ systemEnv = Empty
    /\ git = NoGit
    /\ args0IsTest = FALSE
    /\ currentTAG = Empty
    /\ inferredBy = [e \in 1..Len(EnvsTable) |-> ""]
    /\ currentEnv = 0
    /\ NewHandler

\* The directories of the disk: conf, conf/conf and conf/sub.
BaseDirs == {Dir(<< >>, Wconf), Dir(ConfDir, Wconf), Dir(ConfDir, Wsub)}

IdleLoc ==
    /\ locNames = << >>
    /\ locEnv = 0
    /\ disk = BaseDirs
    /\ FileSearchCaseSensitive = FALSE
    /\ locIdx = 1
    /\ locFound = << >>
    /\ locErr = FALSE
    /\ locPc = "idle"

IdleParse ==
    /\ cfg = [k \in {"X", "Y"} |-> Zero(k)]
    /\ cfg0 = cfg
    /\ cfgFiles = << >>
    /\ cfgIdx = 1
    /\ cfgPc = "done"
    /\ cfgErr = ""
    /\ cfgTags = << >>
    /\ osEnv = ""
    /\ cfgCall = 1
    /\ cfgFirst = cfg

(* The environment handler alone. *)

NextEnv ==
    \/ \E tag \in TagValues :
          SetCurrent(tag) /\ UNCHANGED <<locVars, parseVars, buildVars, moreVars>>
    \/ \E v \in {Empty, Wstaging} :
          Setenv(v) /\ UNCHANGED <<locVars, parseVars, buildVars, moreVars>>
    \/ \E g \in GitValues :
          SetGit(g) /\ UNCHANGED <<locVars, parseVars, buildVars, moreVars>>
    \/ Current /\ UNCHANGED <<locVars, parseVars, buildVars, moreVars>>

(* A program that creates custom environments and builds its own handler. *)

\* The lists a handler is built from: the default environments, alone or
\* followed by a custom environment that exists, a custom environment alone,
\* or no environment.
HandlerLists ==
    LET customs == {<< >>} \cup {<<e>> : e \in created \ DefaultEnvs}
    IN  {DefaultEnvsSlice \o s : s \in customs} \cup customs

\* The tags set by hand: the tag of every environment, and one more.
HandlerTags == {Tag(e) : e \in 1..Len(EnvsTable)} \cup {Wdev}

InitHandler ==
    /\ directEnvironmentTag = Empty
    /\ systemEnv \in {Empty, Wstaging}
    /\ git \in {NoGit, [configured |-> TRUE, Error |-> FALSE, BranchName |-> Wfeature]}
    /\ args0IsTest = FALSE
    /\ currentTAG = Empty
    /\ inferredBy = [e \in 1..Len(EnvsTable) |-> ""]
    /\ currentEnv = 0
    /\ NewHandler

\* A panic that nothing recovers ends the program; the program creates its
\* environments and builds its handler before the first call of Current().
NextHandler ==
    \/ \E e \in CustomEnvs :
          /\ ~envPanic /\ currentEnv = 0
          /\ NewEnvironment(e)
          /\ UNCHANGED <<locVars, parseVars, buildVars, moreVars>>
    \/ \E envs \in HandlerLists :
          /\ ~envPanic /\ currentEnv = 0
          /\ NewEnvironmentHandler(envs, git)
          /\ UNCHANGED <<locVars, parseVars, buildVars, moreVars>>
    \/ \E tag \in HandlerTags :
          ~envPanic /\ SetCurrent(tag) /\ UNCHANGED <<locVars, parseVars, buildVars, moreVars>>
    \/ ~envPanic /\ Current /\ UNCHANGED <<locVars, parseVars, buildVars, moreVars>>

(* Threads sharing the handler. *)

InitThreads ==
    /\ directEnvironmentTag \in {Empty, Wproduction}
    /\ systemEnv \in {Empty, Wstaging}
    /\ git = NoGit
    /\ args0IsTest \in BOOLEAN
    /\ currentTAG = Empty
    /\ inferredBy = [e \in 1..Len(EnvsTable) |-> ""]
    /\ currentEnv = 0
    /\ NewHandler

NextThreads ==
    \/ \E t \in Threads :
          CurrentLock(t) /\ UNCHANGED <<locVars, parseVars, buildVars, moreVars>>
    \/ \E t \in Threads :
          CurrentTest(t) /\ UNCHANGED <<locVars, parseVars, buildVars, moreVars>>
    \/ \E t \in Threads :
          CurrentCopy(t) /\ UNCHANGED <<locVars, parseVars, buildVars, moreVars>>
    \/ \E t \in Threads :
          CurrentReturn(t) /\ UNCHANGED <<locVars, parseVars, buildVars, moreVars>>
    \/ \E t \in Threads, tag \in {Empty, Wproduction, Wdev} :
          SetCurrentBy(t, tag) /\ UNCHANGED <<locVars, parseVars, buildVars, moreVars>>

(* appendEnvFiles alone. *)

CandidateFiles == {
    File(ConfDir, Wcfg \o Dot \o Wyaml),
    File(ConfDir, Wcfg \o Dot \o Wjson),
    File(ConfDir, Wcfg \o Dot \o Wlocal \o Dot \o Wyaml),
    File(ConfDir, Wdb \o Dot \o Wtoml),
    File(ConfDir, Wdb \o Dot \o Wlocal \o Dot \o Wtoml),
    File(ConfDir, <<"T">> \o Dot \o Wyml) }

\* A file in the sub-directory conf of the configuration directory.
SubDirFile == File(ConfDir \o <<Wconf>>, Wcfg \o Dot \o Wyaml)

LogicalNames == {
    Name(ConfDir, Wcfg),
    Name(ConfDir, Wdb),
    Name(ConfDir, Wcfg \o Dot \o Wyaml),
    Name(ConfDir, <<"t">>) }

InitLoc ==
    /\ locNames \in SeqsUpTo(LogicalNames, MaxNames)
    /\ locEnv \in {0, Local}
    /\ disk \in {BaseDirs \cup S : S \in SUBSET CandidateFiles}
               \cup {BaseDirs \cup {SubDirFile},
                     BaseDirs \cup {SubDirFile, File(ConfDir, Wcfg \o Dot \o Wyaml)}}
    /\ FileSearchCaseSensitive \in BOOLEAN
    /\ locIdx = 1
    /\ locFound = << >>
    /\ locErr = FALSE
    /\ locPc = "loop"

NextLoc ==
    \/ LocateStep /\ UNCHANGED <<envVars, parseVars, buildVars, moreVars>>
    \/ LocateReturn /\ UNCHANGED <<envVars, parseVars, buildVars, moreVars>>

(* Parse alone. *)

ConfigFiles ==
    {ConfigFile(x, y, "ok") : x \in FileValues("X"), y \in FileValues("Y")}
    \cup {ConfigFile(1, "a", "corrupt"), ConfigFile(1, "a", "unknown"),
          ConfigFile(1, "a", "template")}

\* Every ordering of every subset of the three tokens.
TagOrders ==
    {t \in SeqsUpTo({TokEnv, TokDefault, TokRequired}, 3) :
        \A i, j \in 1..Len(t) : i # j => t[i] # t[j]}

\* The values of the environment variable VAR: unset or empty, or a text.
EnvValues == {"", "0", "1"}

InitParse ==
    /\ cfg \in {[X |-> x, Y |-> ""] : x \in {0, 1}}
    /\ cfg0 = cfg
    /\ cfgFiles \in SeqsUpTo(ConfigFiles, MaxFiles)
    /\ cfgIdx = 1
    /\ cfgPc = "start"
    /\ cfgErr = ""
    /\ cfgTags \in TagOrders
    /\ osEnv \in EnvValues
    /\ cfgCall = 1
    /\ cfgFirst = cfg

NextParse ==
    \/ ParseStart /\ UNCHANGED <<envVars, locVars, buildVars, moreVars>>
    \/ ParseFile /\ UNCHANGED <<envVars, locVars, buildVars, moreVars>>
    \/ ParseTags /\ UNCHANGED <<envVars, locVars, buildVars, moreVars>>
    \/ ParseAgain /\ UNCHANGED <<envVars, locVars, buildVars, moreVars>>

(* parseConfigTags alone. *)

MaxElems == 2

\* What C can hold: one struct, or nothing behind a nil pointer, for Inner
\* and *Inner; up to MaxElems elements for a slice or a map, the nil
\* pointers among them for an element type *Inner.
NestValues(typ) ==
    IF typ.kind = "struct"
    THEN {<<z>> : z \in {0, 1} \cup (IF typ.stars > 0 THEN {NilPtr} ELSE {})}
    ELSE SeqsUpTo({0, 1} \cup (IF typ.elemStars > 0 THEN {NilPtr} ELSE {}),
                  MaxElems)

\* The orders in which range elemValue.MapKeys() can visit n keys.
Orders(n) ==
    {o \in [1..n -> 1..n] : \A i, j \in 1..n : i # j => o[i] # o[j]}

InitNest ==
    /\ nestType \in NestTypes
    /\ nestTags \in {<< >>, <<TokRequired>>}
    /\ nest \in NestValues(nestType)
    /\ nest0 = nest
    /\ nestOrder \in Orders(Len(nest))
    /\ nestErr = ""
    /\ nestPc = "field"
    /\ cfgTags \in TagOrders
    /\ osEnv \in EnvValues
    /\ cfg = [k \in {"X", "Y"} |-> Zero(k)]
    /\ cfg0 = cfg
    /\ cfgFiles = << >>
    /\ cfgIdx = 1
    /\ cfgPc = "done"
    /\ cfgErr = ""
    /\ cfgCall = 1
    /\ cfgFirst = cfg

IdleNest ==
    /\ nestType = NestType("struct", 0, 0)
    /\ nestTags = << >>
    /\ nest = <<0>>
    /\ nest0 = nest
    /\ nestOrder = <<1>>
    /\ nestErr = ""
    /\ nestPc = "idle"

(* build over recursive struct types alone. *)

InitRec ==
    /\ recTypes \in [StructTypes ->
                        {StructType(f, k, m) : f \in {0} \cup StructTypes,
                                               k \in BOOLEAN, m \in BOOLEAN}]
    /\ recPreset \in BOOLEAN
    /\ recStack = << >>
    /\ recPc = "idle"

IdleRec ==
    /\ recTypes = [t \in StructTypes |-> StructType(0, FALSE, FALSE)]
    /\ recPreset = FALSE
    /\ recStack = << >>
    /\ recPc = "idle"

NextRec ==
    \/ RecBuild /\ UNCHANGED <<envVars, locVars, parseVars, buildVars, nestVars, lockVars>>
    \/ \E r \in {"ok", "err"} :
          RecField(r) /\ UNCHANGED <<envVars, locVars, parseVars, buildVars, nestVars, lockVars>>
    \/ RecReturn /\ UNCHANGED <<envVars, locVars, parseVars, buildVars, nestVars, lockVars>>

(* The Builders' mutexes alone. *)

InitLock ==
    /\ builderMutex = [b \in Builders |-> FALSE]
    /\ calls = << >>

IdleLock == InitLock

NextLock ==
    \/ \E op \in Ops, b \in Builders, from \in Callbacks \cup {""} :
          Invoke(op, b, from)
          /\ UNCHANGED <<envVars, locVars, parseVars, buildVars, nestVars, recVars>>
    \/ Finished /\ UNCHANGED <<envVars, locVars, parseVars, buildVars, nestVars, recVars>>

IdleMore == IdleNest /\ IdleRec /\ IdleLock

NestUnchanged ==
    UNCHANGED <<cfg, cfg0, cfgFiles, cfgIdx, cfgPc, cfgErr, cfgCall, cfgFirst>>

NextNest ==
    \/ NestField /\ NestUnchanged /\ UNCHANGED <<envVars, locVars, buildVars, recVars, lockVars>>
    \/ NestRecurse /\ NestUnchanged /\ UNCHANGED <<envVars, locVars, buildVars, recVars, lockVars>>

(* Build alone. *)

\* The fields the toolbox declares at each position.
FieldSets == <<
    {ConfigurableStruct, ConfigurablePtr, PlainStruct, FactoryStruct, SkippedPtr},
    {ConfigurableStruct, PlainStruct, FactoryPtr},
    {ConfigurableStruct, PlainStruct, Primitive},
    {ConfigurablePtr, SkippedStruct},
    {ConfigurableStruct, FactoryStruct, UnexportedPtr, AnonymousStruct} >>

\* The values a field of the root holds before Build: its zero value (nil
\* for a pointer) or one the caller has set.
Values0(f) == {IF f.kind = "ptr" THEN "nil" ELSE "zero", "pre"}

ConfigFilesOfFields ==
    {File(ConfDir, FieldName(n) \o Dot \o Wyml) : n \in Nodes}

ExtraFile == File(ConfDir, <<"x">> \o Dot \o Wyml)

InitBuild ==
    /\ directEnvironmentTag = Empty
    /\ systemEnv = Empty
    /\ git = [configured |-> TRUE, Error |-> FALSE, BranchName |-> Wmaster]
    /\ args0IsTest = FALSE
    /\ currentTAG = Empty
    /\ inferredBy = [e \in 1..Len(EnvsTable) |-> ""]
    /\ currentEnv = 0
    /\ NewHandler
    /\ locNames = << >>
    /\ locEnv = 0
    /\ disk \in {BaseDirs \cup ConfigFilesOfFields \cup {ExtraFile},
                 BaseDirs \cup {ExtraFile}}
    /\ FileSearchCaseSensitive = FALSE
    /\ locIdx = 1
    /\ locFound = << >>
    /\ locErr = FALSE
    /\ locPc = "idle"
    /\ typeFactories = {}
    /\ shape \in {sh \in [Nodes -> UNION {FieldSets[n] : n \in Nodes}] :
                    \A n \in Nodes : sh[n] \in FieldSets[n]}
    /\ val \in {v \in [Nodes -> {"nil", "zero", "pre"}] :
                  \A n \in Nodes :
                     /\ v[n] \in Values0(shape[n])
                     /\ v[n] = "pre" => Parent[n] = 0}
    /\ val0 = val
    /\ toolBox = ""
    /\ stack = << >>
    /\ DebugOptions = [Enabled |-> TRUE, HideUnhandled |-> TRUE, HideSkipped |-> TRUE]
    /\ events = << >>
    /\ status = [n \in Nodes |-> ""]
    /\ logs = << >>
    /\ buildErr = NoErr
    /\ buildPc = "idle"

NextBuild ==
    \/ \E t \in RegistrableTypes :
          RegisterType(t) /\ UNCHANGED <<locVars, parseVars, moreVars>>
    \/ \E arg \in RootArgs :
          Build(arg) /\ UNCHANGED <<locVars, parseVars, moreVars>>
    \/ \E r \in {"ok", "err", "wrong"} :
          Enter(r) /\ UNCHANGED <<locVars, parseVars, moreVars>>
    \/ NextField /\ UNCHANGED <<locVars, parseVars, moreVars>>
    \/ \E r \in {"ok", "err"} :
          Configure(r) /\ UNCHANGED <<locVars, parseVars, moreVars>>

(* Build with the handler, the debug options and the files varied. *)

\* The fields of this toolbox: A and A1 are plain structs, A11 a struct, A2
\* and B mostly fields of a named non-struct type (Primitive: a named int,
\* PrimitiveFactory: a named slice whose pointer implements Factory).
OptionFieldSets == <<
    {PlainStruct},
    {PlainStruct},
    {PlainStruct, ConfigurableStruct, SkippedStruct},
    {UnexportedPtr, Primitive},
    {Primitive, PrimitiveFactory} >>

\* The type of Primitive, which a FactoryFunc can be registered for.
OptionTypes == {"T4"}

\* <field>.development.yml for every field.
DevelopmentFilesOfFields ==
    {File(ConfDir, FieldName(n) \o Dot \o Wdevelopment \o Dot \o Wyml) : n \in Nodes}

InitOptions ==
    /\ directEnvironmentTag = Empty
    /\ systemEnv = Empty
    /\ git \in {NoGit, [configured |-> TRUE, Error |-> FALSE, BranchName |-> Wmaster]}
    /\ args0IsTest = FALSE
    /\ currentTAG = Empty
    /\ inferredBy = [e \in 1..Len(EnvsTable) |-> ""]
    /\ currentEnv = 0
    /\ NewHandler
    /\ locNames = << >>
    /\ locEnv = 0
    /\ disk \in {BaseDirs \cup ConfigFilesOfFields \cup DevelopmentFilesOfFields,
                 BaseDirs \cup DevelopmentFilesOfFields}
    /\ FileSearchCaseSensitive = FALSE
    /\ locIdx = 1
    /\ locFound = << >>
    /\ locErr = FALSE
    /\ locPc = "idle"
    /\ typeFactories = {}
    /\ shape \in {sh \in [Nodes -> UNION {OptionFieldSets[n] : n \in Nodes}] :
                    \A n \in Nodes : sh[n] \in OptionFieldSets[n]}
    /\ val \in {v \in [Nodes -> {"nil", "zero", "pre"}] :
                  \A n \in Nodes :
                     /\ v[n] \in Values0(shape[n])
                     /\ v[n] = "pre" => n = 5}
    /\ val0 = val
    /\ toolBox = ""
    /\ stack = << >>
    /\ DebugOptions \in [Enabled : BOOLEAN, HideUnhandled : BOOLEAN,
                          HideSkipped : BOOLEAN]
    /\ events = << >>
    /\ status = [n \in Nodes |-> ""]
    /\ logs = << >>
    /\ buildErr = NoErr
    /\ buildPc = "idle"

\* builder.EnvHandler.SetCurrent(tag) before Build.
SetCurrentBeforeBuild(tag) ==
    /\ buildPc = "idle"
    /\ SetCurrent(tag)
    /\ UNCHANGED buildVars

NextOptions ==
    \/ \E tag \in {Wdev} :
          SetCurrentBeforeBuild(tag) /\ UNCHANGED <<locVars, parseVars, moreVars>>
    \/ \E t \in OptionTypes :
          RegisterType(t) /\ UNCHANGED <<locVars, parseVars, moreVars>>
    \/ \E arg \in {"struct"} :
          Build(arg) /\ UNCHANGED <<locVars, parseVars, moreVars>>
    \/ \E r \in {"ok", "err", "wrong"} :
          Enter(r) /\ UNCHANGED <<locVars, parseVars, moreVars>>
    \/ NextField /\ UNCHANGED <<locVars, parseVars, moreVars>>
    \/ \E r \in {"ok", "err"} :
          Configure(r) /\ UNCHANGED <<locVars, parseVars, moreVars>>

IdleBuild ==
    /\ typeFactories = {}
    /\ shape = << >>
    /\ val = << >>
    /\ val0 = << >>
    /\ toolBox = ""
    /\ stack = << >>
    /\ DebugOptions = [Enabled |-> TRUE, HideUnhandled |-> TRUE, HideSkipped |-> TRUE]
    /\ events = << >>
    /\ status = << >>
    /\ logs = << >>
    /\ buildErr = NoErr
    /\ buildPc = "idle"

InitSpecEnv   == InitEnv /\ IdleLoc /\ IdleParse /\ IdleBuild /\ IdleMore
InitSpecHandler == InitHandler /\ IdleLoc /\ IdleParse /\ IdleBuild /\ IdleMore
InitSpecThreads == InitThreads /\ IdleLoc /\ IdleParse /\ IdleBuild /\ IdleMore
InitSpecLoc   == IdleEnv /\ InitLoc /\ IdleParse /\ IdleBuild /\ IdleMore
InitSpecParse == IdleEnv /\ IdleLoc /\ InitParse /\ IdleBuild /\ IdleMore
InitSpecBuild == InitBuild /\ IdleParse /\ IdleMore

SpecEnv   == InitSpecEnv /\ [][NextEnv]_vars
SpecLoc   == InitSpecLoc /\ [][NextLoc]_vars
InitSpecNest == IdleEnv /\ IdleLoc /\ InitNest /\ IdleBuild /\ IdleRec /\ IdleLock
InitSpecRec == IdleEnv /\ IdleLoc /\ IdleParse /\ IdleBuild /\ IdleNest /\ InitRec /\ IdleLock
InitSpecLock == IdleEnv /\ IdleLoc /\ IdleParse /\ IdleBuild /\ IdleNest /\ IdleRec /\ InitLock
SpecLock == InitSpecLock /\ [][NextLock]_vars
SpecRec == InitSpecRec /\ [][NextRec]_vars
SpecNest == InitSpecNest /\ [][NextNest]_vars
InitSpecOptions == InitOptions /\ IdleParse /\ IdleMore
SpecOptions == InitSpecOptions /\ [][NextOptions]_vars
SpecParse == InitSpecParse /\ [][NextParse]_vars
SpecHandler == InitSpecHandler /\ [][NextHandler]_vars
SpecThreads == InitSpecThreads /\ [][NextThreads]_vars
SpecBuild == InitSpecBuild /\ [][NextBuild]_vars

----------------------------------------------------------------------------
(* Claims                                                                  *)

\* The candidate tag as C1 states it: the first non-empty source among the
\* manual tag, the system variable, the branch name of a configured Git source
\* that reports no error, "testing" for a test binary, else the empty tag.
ClaimedTag ==
    IF directEnvironmentTag # Empty THEN directEnvironmentTag
    ELSE IF systemEnv # Empty THEN systemEnv
    ELSE IF git.configured /\ ~git.Error /\ git.BranchName # Empty THEN git.BranchName
    ELSE IF args0IsTest THEN Tag(Testing)
    ELSE Empty

\* C1: every call of Current() takes its candidate tag from the first
\* non-empty source in the order manual tag, system variable, VCS branch,
\* test-binary fallback, and resolves the empty tag to local.
C1_FirstNonEmptySource ==
    [][Current => /\ currentTAG' = ClaimedTag
                  /\ currentEnv' = FirstMatch(environments, ClaimedTag)]_vars

\* The files C5 describes for the i-th requested name: its generic file if
\* one is found, then its environment-specific file if one is found.
GenericOf(i) ==
    LET n == locNames[i]
        ext == Ext(n.name)
    IN  WalkConfigPath(disk, n.dir,
            Regex(TrimSuffix(n.name, ext), ext, FileSearchCaseSensitive))

SpecificOf(i) ==
    LET n == locNames[i]
        ext == Ext(n.name)
    IN  IF locEnv = 0 THEN NoFile
        ELSE WalkConfigPath(disk, n.dir,
                 Regex(TrimSuffix(n.name, ext) \o Dot \o Tag(locEnv), ext,
                       FileSearchCaseSensitive))

RECURSIVE ClaimedSequence(_)
ClaimedSequence(i) ==
    IF i > Len(locNames) THEN << >>
    ELSE (IF GenericOf(i) = NoFile THEN << >> ELSE <<GenericOf(i)>>)
         \o (IF SpecificOf(i) = NoFile THEN << >> ELSE <<SpecificOf(i)>>)
         \o ClaimedSequence(i + 1)

\* C5: the located sequence is, in the caller's order of the names, the
\* generic file of each name followed by its environment-specific file.
C5_GenericThenSpecificInCallerOrder ==
    locPc = "done" => locFound = ClaimedSequence(1)

\* Two names were requested, the first has both its files, the second a file.
C5_Witness ==
    /\ locPc = "done"
    /\ Len(locNames) = 2
    /\ GenericOf(1) # NoFile /\ SpecificOf(1) # NoFile
    /\ GenericOf(2) # NoFile
    /\ locNames[1] # locNames[2]
    /\ Len(locFound) >= 3

\* The value of key k after the first j files as C6 states it: the value
\* given by the last of them that sets k, the initial value if none does. A
\* placeholder is given its value by the file it stands in.
RECURSIVE LastWrite(_, _)
LastWrite(k, j) ==
    IF j = 0 THEN cfg0[k]
    ELSE IF cfgFiles[j][k] = Absent(k) THEN LastWrite(k, j - 1)
    ELSE IF k = "Y" /\ cfgFiles[j][k] = Placeholder
         THEN Itoa(IF cfgFiles[j]["X"] = Absent("X")
                   THEN LastWrite("X", j - 1) ELSE cfgFiles[j]["X"])
    ELSE cfgFiles[j][k]

Loaded == cfgPc = "files" /\ cfgIdx > Len(cfgFiles)

\* C6: after the files are loaded in order every key holds the value of the
\* last file that sets it, and a key no later file mentions keeps its value;
\* the untagged key Y still does when Parse returns.
C6_PerKeyLastWriteWins ==
    /\ Loaded => \A k \in {"X", "Y"} : cfg[k] = LastWrite(k, Len(cfgFiles))
    /\ (cfgPc = "done" /\ cfgErr = "") => cfg["Y"] = LastWrite("Y", Len(cfgFiles))

\* The first file sets both keys, the second only X: Y keeps the first file's
\* value and X takes the second's.
C6_Witness ==
    /\ Loaded
    /\ Len(cfgFiles) = 2
    /\ cfgFiles[1]["X"] = 1 /\ cfgFiles[1]["Y"] = "a"
    /\ cfgFiles[2]["X"] = 0 /\ cfgFiles[2]["Y"] = Absent("Y")
    /\ cfg = [X |-> 0, Y |-> "a"]

HasTok(t) == \E i \in 1..Len(cfgTags) : cfgTags[i] = t

FromFiles == LastWrite("X", Len(cfgFiles))

\* C7: env > file > default: the decoded variable if it is set and non-empty,
\* else the files' non-zero value, else the decoded default.
C7_EnvOverFileOverDefault ==
    (cfgPc = "done" /\ cfgErr = "") =>
        cfg["X"] = IF HasTok(TokEnv) /\ osEnv # "" THEN YamlInt(osEnv)
                   ELSE IF FromFiles # 0 THEN FromFiles
                   ELSE IF HasTok(TokDefault) THEN YamlInt(TokDefault.v)
                   ELSE 0

\* The field after the env override and then the default, whatever the order
\* of the tokens.
AfterEnvAndDefault ==
    LET e == IF HasTok(TokEnv) /\ osEnv # "" THEN YamlInt(osEnv) ELSE FromFiles
    IN  IF e = 0 /\ HasTok(TokDefault) THEN YamlInt(TokDefault.v) ELSE e

\* C8: Parse fails with the required-field error exactly when the field is
\* still zero after env and default, for every ordering of the tokens.
C8_RequiredAfterEnvAndDefault ==
    (cfgPc = "done" /\ cfgErr \in {"", "required"} /\ Len(cfgFiles) > 0) =>
        ((cfgErr = "required") <=> (HasTok(TokRequired) /\ AfterEnvAndDefault = 0))

\* The indices of the New, FactoryFunc and Configure calls on a field.
CallOps == {"New", "FactoryFunc", "Configure"}
Calls(n) == {i \in 1..Len(events) : events[i].n = n /\ events[i].op \in CallOps}

\* The strategy C2 states for a field: its own Factory, else the FactoryFunc
\* registered for its type, else Configure.
ClaimedStrategy(n) ==
    IF shape[n].isFactory THEN "New"
    ELSE IF shape[n].typ \in typeFactories THEN "FactoryFunc"
    ELSE "Configure"

\* C2: for one field at most one of New / registered FactoryFunc / Configure
\* is invoked, at most once per Build, on a zero-valued field without skip
\* tag only, and it is the first of the three the field offers; a field
\* classified as made or configured has had that call.
C2_OneStrategyInPriorityOrder ==
    \A n \in Nodes :
        /\ Cardinality(Calls(n)) <= 1
        /\ \A i \in Calls(n) :
              /\ events[i].op = ClaimedStrategy(n)
              /\ val0[n] \in {"zero", "nil"}
              /\ ~shape[n].skipTag
        /\ status[n] = "madeFromInterface" =>
              \E i \in Calls(n) : events[i].op = "New" /\ events[i].res = "ok"
        /\ status[n] = "madeFromRegisteredFactory" =>
              \E i \in Calls(n) : events[i].op = "FactoryFunc" /\ events[i].res = "ok"
        /\ status[n] = "configured" =>
              \E i \in Calls(n) : events[i].op = "Configure" /\ events[i].res = "ok"

\* A Build that made a field offering all three strategies by its New and a
\* Configurable field of a registered type by the FactoryFunc.
C2_Witness ==
    /\ buildPc = "done"
    /\ \E n \in Nodes :
          /\ shape[n].isFactory /\ shape[n].isConfigurable
          /\ shape[n].typ \in typeFactories
          /\ status[n] = "madeFromInterface"
    /\ \E n \in Nodes :
          /\ shape[n].isConfigurable
          /\ status[n] = "madeFromRegisteredFactory"

\* C3: when Configure is called on a field every one of its sub-fields has
\* been built (classified), no lookup or call on a descendant follows it,
\* and the lookups and calls on fields of different subtrees follow the
\* declaration order.
C3_ChildrenBeforeParent ==
    \A i \in 1..Len(events) :
        /\ events[i].op = "Configure" =>
              \A c \in Nodes : Parent[c] = events[i].n => status[c] # ""
        /\ \A j \in 1..Len(events) :
              i < j =>
                 /\ ~IsUnder(events[j].n, events[i].n)
                 /\ (events[i].n # events[j].n /\ ~IsUnder(events[i].n, events[j].n))
                       => events[i].n < events[j].n

\* Configure of A11, then of A1, then of A2, then of A.
C3_Witness ==
    /\ Len(events) > 0
    /\ events[Len(events)] = Event(1, "Configure", "ok")
    /\ \E i, j, k \in 1..Len(events) :
          /\ i < j /\ j < k
          /\ events[i] = Event(3, "Configure", "ok")
          /\ events[j] = Event(2, "Configure", "ok")
          /\ events[k] = Event(4, "Configure", "ok")

\* A field the caller has populated, once build has visited it.
PrePopulated(n) ==
    /\ shape[n].kind \in {"struct", "ptr"}
    /\ val0[n] = "pre"
    /\ status[n] # ""

\* Nothing was looked up, constructed or configured for the field or below it
\* and its value is the one it had before Build.
Untouched(n) ==
    /\ val[n] = val0[n]
    /\ \A i \in 1..Len(events) : events[i].n # n /\ ~IsUnder(events[i].n, n)
    /\ \A c \in Nodes : IsUnder(c, n) => status[c] = "" /\ val[c] = val0[c]

\* C4 as stated: a field that is non-zero when visited is classified
\* AlreadyConfigured, is not descended into and keeps its value.
C4_AlwaysAlreadyConfigured ==
    \A n \in Nodes :
        PrePopulated(n) => status[n] = "alreadyConfigured" /\ Untouched(n)

\* C4, amended: a field that is non-zero when visited is not descended into,
\* no file is looked up for it and it keeps its value; it is classified
\* AlreadyConfigured unless it is unexported or anonymous, or a pointer with
\* the skip tag, which are classified Skipped.
C4_NeverOverwritten ==
    \A n \in Nodes :
        PrePopulated(n) =>
            /\ Untouched(n)
            /\ status[n] = IF \/ ~shape[n].canSet
                              \/ shape[n].anon
                              \/ shape[n].kind = "ptr" /\ shape[n].skipTag
                           THEN "skipped" ELSE "alreadyConfigured"

\* A populated field that offers a Factory was passed over and the field
\* declared after it was configured.
C4_Witness ==
    /\ buildPc = "done"
    /\ PrePopulated(1) /\ shape[1].isFactory /\ status[1] = "alreadyConfigured"
    /\ status[5] = "configured"

\* The error Build returns for a failed lookup or call.
ErrOf(e) ==
    IF e.op = "lookup" THEN Err("lookup", e.n)
    ELSE IF e.res = "wrong" THEN Err("type", e.n)
    ELSE Err(e.op, e.n)

\* C9: a failed lookup or call is the last one of its Build, and Build
\* returns its error.
C9_FailureAbortsBuild ==
    /\ \A i \in 1..Len(events) : events[i].res # "ok" => i = Len(events)
    /\ (Len(events) > 0 /\ events[Len(events)].res # "ok") =>
          /\ buildPc # "running"
          /\ buildPc = "done" => buildErr = ErrOf(events[Len(events)])

\* A11 failed after its lookup: A2, A1's and A's Configure and B were left.
C9_Witness ==
    /\ buildPc = "done"
    /\ Len(events) > 1
    /\ events[Len(events)].n = 3
    /\ events[Len(events)].res # "ok"
    /\ shape[2].isConfigurable /\ shape[1].isConfigurable
    /\ status[1] = "" /\ status[2] = "" /\ status[4] = "" /\ status[5] = ""

\* C10 as stated: when Build returns an error the toolbox equals its value
\* before the call.
C10_FailedBuildRestoresRoot ==
    (buildPc = "done" /\ buildErr # NoErr) => val = val0

\* build has reached the field: it is classified or a field below it is.
Reached(n) ==
    \/ status[n] # ""
    \/ \E c \in Nodes : IsUnder(c, n) /\ status[c] # ""

\* C10, amended: a failed Build is not rolled back. The fields made or
\* configured before the failing one keep their new values, the pointers
\* allocated on the way stay allocated, and only the fields build has not
\* reached hold the values they had before the call.
C10_FailedBuildKeepsProgress ==
    (buildPc = "done" /\ buildErr # NoErr) =>
        \A n \in Nodes :
            /\ \A i \in Calls(n) :
                  events[i].res = "ok" =>
                     val[n] = IF events[i].op = "New" THEN "new"
                              ELSE IF events[i].op = "FactoryFunc" THEN "reg"
                              ELSE "cfg"
            /\ (val0[n] = "nil" /\ Reached(n) /\ status[n] # "skipped")
                  => val[n] # "nil"
            /\ ~Reached(n) => val[n] = val0[n]

\* A failed Build that left a made field, a configured field and an
\* allocated pointer behind.
C10_Witness ==
    /\ buildPc = "done"
    /\ buildErr # NoErr
    /\ \E n \in Nodes : val[n] \in {"new", "reg"}
    /\ \E n \in Nodes : val[n] = "cfg"
    /\ \E n \in Nodes : val0[n] = "nil" /\ val[n] = "zero"

\* C11: when a Factory or a registered FactoryFunc returns an instance of
\* another type, Build fails with the type error and the field holds the
\* value it had before Build (a nil pointer is still nil).
C11_WrongTypeLeavesFieldUnchanged ==
    \A i \in 1..Len(events) :
        events[i].res = "wrong" =>
            /\ buildPc # "running"
            /\ buildPc = "done" => buildErr = Err("type", events[i].n)
            /\ val[events[i].n] = val0[events[i].n]

\* C16: a field with the skip tag keeps its value, nothing is looked up,
\* constructed or configured for it or below it, and when build visits it
\* with its zero value it is classified Skipped.
C16_SkipTagLeavesFieldAlone ==
    \A n \in Nodes :
        shape[n].skipTag =>
            /\ Untouched(n)
            /\ (status[n] # "" /\ val0[n] \in {"nil", "zero"})
                  => status[n] = "skipped"

\* A Build went past a nil pointer and a zero struct carrying the skip tag,
\* each with a matching file on the disk, and configured the last field.
C16_Witness ==
    /\ buildPc = "done"
    /\ buildErr = NoErr
    /\ shape[1].skipTag /\ val0[1] = "nil" /\ status[1] = "skipped" /\ val[1] = "nil"
    /\ File(ConfDir, FieldName(1) \o Dot \o Wyml) \in disk
    /\ status[5] = "configured"

\* C17: for every argument that is not a non-nil pointer to a struct, Build
\* returns an error without panicking, visits no field and makes no lookup
\* or call.
C17_InvalidRootReturnsError ==
    (toolBox \notin {"", "struct"}) =>
        /\ buildPc = "done"
        /\ buildErr = Err("root", 0)
        /\ events = << >>
        /\ \A n \in Nodes : status[n] = "" /\ val[n] = val0[n]

\* The file lookups of a Build that found nothing, and those that found a file.
LookupAgrees(e) ==
    e.op = "lookup" =>
        (e.res = "err" <=>
            \A i \in 1..Len(ConfigFileNames(e.n)) :
                EnvFilesOf(disk,
                    Name(ConfDir, ConfigFileNames(e.n)[i].name),
                    Resolve(directEnvironmentTag, systemEnv, git, args0IsTest),
                    FileSearchCaseSensitive) = << >>)

\* C18: file location fails if and only if no requested name has a generic
\* or an environment-specific file; a name without file is passed over when
\* another one has a file. In a Build a lookup fails under the same condition.
C18_NotFoundIffNoFileAtAll ==
    /\ locPc = "done" =>
          (locErr <=> \A i \in 1..Len(locNames) :
                          GenericOf(i) = NoFile /\ SpecificOf(i) = NoFile)
    /\ \A j \in 1..Len(events) : LookupAgrees(events[j])

\* Two names were requested; the first has no file, the second only its
\* environment-specific one: no error.
C18_Witness ==
    /\ locPc = "done"
    /\ Len(locNames) = 2
    /\ GenericOf(1) = NoFile /\ SpecificOf(1) = NoFile
    /\ GenericOf(2) = NoFile /\ SpecificOf(2) # NoFile
    /\ ~locErr

----------------------------------------------------------------------------
\* C19: each file is decoded into the destination and then rendered as a
\* template against the destination as that decode left it and decoded
\* again: right after a file that writes Y as the placeholder of X, Y holds
\* the text of X as it stands after that file, no placeholder is ever left
\* in the destination, and a file whose template step fails ends the call
\* with that error (no later file is read, the tags are not processed).
C19_PlaceholderHoldsSibling ==
    /\ cfg["Y"] # Placeholder
    /\ (cfgPc = "files" /\ cfgIdx > 1 /\ cfgFiles[cfgIdx - 1]["Y"] = Placeholder)
          => cfg["Y"] = Itoa(cfg["X"])
    /\ (cfgPc = "done" /\ cfgErr = "" /\ Len(cfgFiles) > 0
           /\ cfgFiles[Len(cfgFiles)]["Y"] = Placeholder
           /\ cfgFiles[Len(cfgFiles)]["X"] # Absent("X"))
          => cfg["Y"] = Itoa(cfgFiles[Len(cfgFiles)]["X"])
    /\ \A j \in 1..Len(cfgFiles) :
          cfgFiles[j].kind = "template" =>
            /\ cfgIdx <= j
            /\ cfgPc = "done" => cfgErr # ""
            /\ (cfgIdx = j /\ cfgPc = "done") => cfgErr = "template"

\* The second of two files writes X = 1 and Y = {{.X}} over a destination
\* whose X was 0: Y is "1" when Parse has returned.
C19_Witness ==
    /\ cfgPc = "done" /\ cfgErr = ""
    /\ Len(cfgFiles) = 2
    /\ cfgFiles[1]["X"] = 0
    /\ cfgFiles[2]["X"] = 1 /\ cfgFiles[2]["Y"] = Placeholder
    /\ cfg["Y"] = "1"

----------------------------------------------------------------------------
\* C20: Parse does not reset the destination: a field that is not zero when
\* Parse is called and that no file sets keeps its value, and a second Parse
\* of the same files, with the same tags and environment variables, on the
\* destination the first one populated succeeds and leaves it as the first
\* one left it.
SetByNoFile(k) == \A j \in 1..Len(cfgFiles) : cfgFiles[j][k] = Absent(k)

EnvOverrides == HasTok(TokEnv) /\ osEnv # ""

RequiredBeforeEnv ==
    \E i, j \in 1..Len(cfgTags) :
        i < j /\ cfgTags[i] = TokRequired /\ cfgTags[j] = TokEnv

Rerendered ==
    \E j \in 1..Len(cfgFiles) :
        /\ cfgFiles[j]["Y"] = Placeholder
        /\ \A i \in (j + 1)..Len(cfgFiles) : cfgFiles[i]["Y"] = Absent("Y")
        /\ \A i \in 1..j : cfgFiles[i]["X"] = Absent("X")

----------------------------------------------------------------------------
\* C12: Current() is total: it can always be called and every call returns
\* an Environment that exists; when the candidate tag it selects matches no
\* environment of the handler's list the result is the default local
\* environment, and a manual tag that is not empty is the candidate whether
\* or not an environment matches it (the system variable and the branch are
\* not consulted).
Unmatched(tag) ==
    \A i \in 1..Len(environments) : ~MatchTag(environments[i], tag)

C12_TotalAndLocalWhenUnmatched ==
    [][Current =>
         /\ currentEnv' \in created
         /\ Unmatched(currentTAG') => currentEnv' = Local
         /\ directEnvironmentTag # Empty => currentTAG' = directEnvironmentTag]_vars

\* The manual tag "main" matches no environment while BUILD_ENV holds
\* "staging": Current() has returned local.
C12_Witness ==
    /\ directEnvironmentTag = Wmain
    /\ systemEnv = Wstaging
    /\ Unmatched(Wmain)
    /\ currentTAG = Wmain
    /\ currentEnv = Local

----------------------------------------------------------------------------
\* The handlers C13 speaks of: the five defaults, custom environments after.
DefaultsFirst ==
    /\ Len(environments) >= Len(DefaultEnvsSlice)
    /\ SubSeq(environments, 1, Len(DefaultEnvsSlice)) = DefaultEnvsSlice

\* The environments of the handler whose tag is the manual tag, that is the
\* E of a SetCurrent(E.Tag()) no other SetCurrent has followed.
SetTo(i) == Tag(environments[i]) = directEnvironmentTag

\* C13: for every environment E of a handler holding the five defaults and
\* custom environments after them, the Current() that follows
\* SetCurrent(E.Tag()) returns E.
C13_SetCurrentTagSelectsIt ==
    [][(Current /\ DefaultsFirst) =>
          \A i \in 1..Len(environments) :
              SetTo(i) => currentEnv' = environments[i]]_vars

\* C13 as the code has it: the Current() that follows SetCurrent(E.Tag())
\* with a tag that is not empty returns the first environment of the
\* handler's list whose regexp matches E.Tag(); it is E when no environment
\* before E in the list matches E's tag, which is so for each of the five
\* defaults in the default list and for a "server1" environment after them.
NoneBefore(i) ==
    \A j \in 1..(i - 1) : ~MatchTag(environments[j], Tag(environments[i]))

C13_SetCurrentTagSelectsFirstMatch ==
    [][Current =>
          \A i \in 1..Len(environments) :
              (SetTo(i) /\ directEnvironmentTag # Empty) =>
                  /\ currentEnv' = FirstMatch(environments, Tag(environments[i]))
                  /\ NoneBefore(i) => currentEnv' = environments[i]
                  /\ (DefaultsFirst /\ (i <= Len(DefaultEnvsSlice)
                                        \/ Tag(environments[i]) = Wserver1))
                        => currentEnv' = environments[i]]_vars

\* The handler holds the defaults and the "server1" environment, the manual
\* tag is "server1" and Current() has returned that environment.
C13_Witness ==
    /\ DefaultsFirst
    /\ Len(environments) > Len(DefaultEnvsSlice)
    /\ directEnvironmentTag = Wserver1
    /\ currentEnv \in CustomEnvs
    /\ Tag(currentEnv) = Wserver1
    /\ currentEnv = environments[Len(environments)]

----------------------------------------------------------------------------
\* C14: every Environment that exists, and so every environment of the
\* handler's list, is matched on its own tag by its own regexp: a call of
\* NewEnvironment whose regexp does not match the tag panics and leaves no
\* Environment behind, and SetCurrent and Current() leave the environments
\* that exist as they are.
C14_EveryEnvironmentMatchesItsTag ==
    /\ \A e \in created : MatchTag(e, Tag(e))
    /\ \A i \in 1..Len(environments) : environments[i] \in created
    /\ \A e \in CustomEnvs : ~MatchTag(e, Tag(e)) => e \notin created

\* NewEnvironment("server1", ...) has returned its environment and
\* NewEnvironment("main", `master`) has panicked.
C14_Witness ==
    /\ envPanic
    /\ \E e \in created \cap CustomEnvs : Tag(e) = Wserver1
    /\ \A e \in created : Tag(e) # Wmain

----------------------------------------------------------------------------
\* C15: Current() and SetCurrent() on one handler run in an exclusive
\* critical section: the manual tag is never written while a thread is
\* inside Current(), and at most one thread at a time is inside Current(),
\* where the handler's and the environments' state is written.
Inside == {t \in Threads : callers[t].pc # "idle"}

C15_ExclusiveCriticalSection ==
    /\ [][directEnvironmentTag' # directEnvironmentTag => Inside = {}]_vars
    /\ [](Cardinality(Inside) <= 1)
    /\ [](\A t \in Inside : mutex = t)

----------------------------------------------------------------------------
\* The position in the handler's list of the earliest environment matching
\* the tag, 0 when none matches.
Earliest(tag) ==
    IF Unmatched(tag) THEN 0
    ELSE CHOOSE i \in 1..Len(environments) :
            /\ MatchTag(environments[i], tag)
            /\ \A j \in 1..(i - 1) : ~MatchTag(environments[j], tag)

\* C22: Current() matches its candidate tag against the handler's
\* environments in registration order and returns the earliest one whose
\* regexp matches it; an environment is returned only if none registered
\* before it matches the candidate.
C22_EarliestRegisteredMatchWins ==
    [][Current =>
         /\ Earliest(currentTAG') # 0 =>
                currentEnv' = environments[Earliest(currentTAG')]
         /\ \A i \in 1..Len(environments) :
                (currentEnv' = environments[i] /\ MatchTag(environments[i], currentTAG'))
                   => \A j \in 1..(i - 1) :
                         \/ ~MatchTag(environments[j], currentTAG')
                         \/ environments[j] = environments[i]]_vars

\* The candidate "devbox" is matched by Development and by the "devbox"
\* environment registered after the defaults: Current() has returned
\* Development.
C22_Witness ==
    /\ currentTAG = Wdevbox
    /\ \E i \in 1..Len(environments) :
          Tag(environments[i]) = Wdevbox /\ MatchTag(environments[i], Wdevbox)
    /\ Len(environments) > 0 /\ MatchTag(Development, Wdevbox)
    /\ Earliest(Wdevbox) = Development
    /\ currentEnv = Development

----------------------------------------------------------------------------
\* The fields New or a registered FactoryFunc has made.
Made == {n \in Nodes : \E i \in 1..Len(events) :
            /\ events[i].n = n
            /\ events[i].op \in {"New", "FactoryFunc"}
            /\ events[i].res = "ok"}

\* C23: the builder does not descend into a field made by its Factory
\* capability or by a registered FactoryFunc: no call of build is made for
\* any of its descendants, no lookup, New, FactoryFunc or Configure happens
\* for them, and Configure is not invoked on the made field.
C23_NoDescentIntoMadeField ==
    \A n \in Made :
        /\ \A i \in 1..Len(events) :
              /\ ~IsUnder(events[i].n, n)
              /\ ~(events[i].n = n /\ events[i].op = "Configure")
        /\ \A d \in Nodes : IsUnder(d, n) =>
              /\ status[d] = ""
              /\ val[d] = val0[d]
              /\ \A k \in 1..Len(stack) : stack[k].n # d

\* A is a struct that implements Factory and Configurable and has the
\* fields A1 and A2: New has made it and Build has returned no error.
C23_Witness ==
    /\ buildPc = "done" /\ buildErr = NoErr
    /\ 1 \in Made
    /\ shape[1].isConfigurable
    /\ shape[2].isConfigurable /\ val0[2] = "zero"
    /\ \E n \in Nodes : status[n] = "configured"

----------------------------------------------------------------------------
\* C28: the search is not recursive: every file appendEnvFiles returns for
\* a name lies directly in the directory of that name, never in one of its
\* sub-directories, whatever the sub-directory is called.
C28_OnlyFilesOfTheDirectory ==
    \A i \in 1..Len(locFound) :
        \E j \in 1..Len(locNames) : locFound[i].dir = locNames[j].dir

\* The structs of the container whose field Z the tag pass should have
\* processed: every one that exists.
Structs == {i \in 1..Len(nest0) : nest0[i] # NilPtr}

\* What the tag loop makes of a top-level field holding what struct i held.
TopLevel(i) == TagLoop(cfgTags, nest0[i], "Z", osEnv)

\* C27: the tag pass applies the annotations of a field nested under a plain
\* struct field, a pointer-to-struct field, a slice element or a map value
\* exactly as it does for a top-level field: once parseConfigTags has
\* returned without the container's own tag failing, a nested field the
\* annotations reject has made it fail, and after a success every nested
\* field holds what the annotations give a top-level field.
C27_NestedTagsApplied ==
    (nestPc = "done" /\ ~(Len(nestTags) > 0 /\ NestEmpty(nestType, nest0))) =>
        /\ (\E i \in Structs : TopLevel(i).err # "") => nestErr # ""
        /\ nestErr = "" => \A i \in Structs : nest[i] = TopLevel(i).fv

DevelopmentFile(n) ==
    File(ConfDir, FieldName(n) \o Dot \o Wdevelopment \o Dot \o Wyml)

\* C21: after SetCurrent("dev") the environment-specific file of a field is
\* the one qualified by the primary tag of the resolved environment,
\* <name>.development.yml: every lookup of a Build finds it, with or without
\* a generic <name>.yml, and once Build has ended it is the last of the files
\* each lookup handed over.
C21_EnvFileQualifiedByPrimaryTag ==
    directEnvironmentTag = Wdev =>
        \A i \in 1..Len(events) :
            events[i].op = "lookup" =>
                /\ events[i].res = "ok"
                /\ buildPc \in {"done", "panic"} =>
                      \E l \in {Lookup(events[i].n)} :
                          /\ ~l.err
                          /\ l.files[Len(l.files)] = DevelopmentFile(events[i].n)

\* A Build after SetCurrent("dev"), no generic file on the disk, has
\* configured A11 from a11.development.yml.
C21_Witness ==
    /\ directEnvironmentTag = Wdev
    /\ buildPc = "done"
    /\ ConfigFilesOfFields \cap disk = {}
    /\ \E i \in 1..Len(events) : events[i] = Event(3, "Configure", "ok")
    /\ status[3] = "configured"

\* The fields build has configured or made.
Handled ==
    {d \in Nodes : status[d] \in {"configured", "madeFromInterface",
                                   "madeFromRegisteredFactory"}}

\* C24: a struct field without Factory, registered factory or Configure is
\* classified Traversed exactly when one of its descendants was configured
\* or made, and Unhandled otherwise, whatever DebugOptions.HideSkipped and
\* DebugOptions.HideUnhandled are.
C24_TraversedIffDescendantHandled ==
    \A n \in Nodes :
        status[n] \in {"traversing", "unhandled"} =>
            (status[n] = "traversing" <=> \E d \in Handled : IsUnder(d, n))

\* C25: producing the trace never makes Build fail or panic, for any setting
\* of DebugOptions and also when Sources.Git is nil: a Build that was given
\* a pointer to a struct ends by returning.
C25_TraceNeverPanics ==
    toolBox = "struct" => buildPc # "panic"

\* The fields whose kind is neither struct nor pointer.
NonStructs == {n \in Nodes : shape[n].kind = "prim"}

EventsOf(n) == {i \in 1..Len(events) : events[i].n = n}

\* setField goes as far as its factory branches for the field n.
Makeable(n) ==
    /\ shape[n].canSet /\ ~shape[n].anon /\ ~shape[n].skipTag
    /\ val0[n] = "zero"
    /\ shape[n].isFactory \/ shape[n].typ \in typeFactories

\* C26 as stated: for a field whose kind is neither struct nor pointer Build
\* invokes no Factory and no FactoryFunc, performs no file lookup and leaves
\* the value unchanged, even when its type implements Factory or has a
\* FactoryFunc registered.
C26_NonStructFieldsUntouched ==
    \A n \in NonStructs : EventsOf(n) = {} /\ val[n] = val0[n]

\* C26, amended: for a field whose kind is neither struct nor pointer Build
\* never calls Configure; it performs no file lookup, invokes nothing and
\* leaves the value unchanged unless the field is settable, not anonymous,
\* not tagged skip, zero, and its type implements Factory or has a
\* FactoryFunc registered for it; the value changes only to the instance a
\* successful New or FactoryFunc returned after a successful lookup.
C26_NonStructFieldsOnlyMade ==
    \A n \in NonStructs :
        /\ \A i \in EventsOf(n) : events[i].op \in {"lookup", "New", "FactoryFunc"}
        /\ ~Makeable(n) => (EventsOf(n) = {} /\ val[n] = val0[n])
        /\ val[n] # val0[n] =>
              /\ val[n] \in {"new", "reg"}
              /\ \E i, j \in EventsOf(n) :
                    /\ i < j
                    /\ events[i] = Event(n, "lookup", "ok")
                    /\ events[j] = Event(n, IF val[n] = "new" THEN "New"
                                            ELSE "FactoryFunc", "ok")

\* B, of a named type that implements Factory, and A2, of a type with a
\* registered FactoryFunc, have both been made by a Build.
C26_Witness ==
    /\ buildPc = "done"
    /\ shape[5] = PrimitiveFactory /\ val0[5] = "zero" /\ val[5] = "new"
    /\ shape[4] = Primitive /\ val[4] = "reg"
    /\ status[5] = "madeFromInterface"

\* C29: Build terminates for every root struct type, the types with a nil
\* pointer field to their own type, directly or through other structs,
\* included: the descent into allocated pointees never exhausts the stack.
C29_BuildTerminates ==
    recPc # "overflow"

\* The calls that wait for a mutex.
Waiting == {k \in 1..Len(calls) : calls[k].state = "waiting"}

\* The Builder of call k is the Builder of a Build that encloses it.
SameBuilderInside(k) ==
    \E j \in 1..(k - 1) : calls[j].op = "Build" /\ calls[j].b = calls[k].b

\* C30: Build holds the Builder's mutex through its callbacks, and the mutex
\* is not reentrant: a call made from a callback blocks exactly when it is a
\* Build, RegisterType or WithCustomEnvHandler on the Builder of an
\* enclosing Build (the same calls on another Builder, and Parse, do not
\* block), every Build in progress holds its mutex, and once a call blocks
\* nothing returns any more: the enclosing Builds never return.
C30_NestedCallOnSameBuilderBlocks ==
    /\ [](\A k \in 1..Len(calls) :
            /\ k \in Waiting <=> (calls[k].op \in LockingOps /\ SameBuilderInside(k))
            /\ (calls[k].op = "Build" /\ k \notin Waiting) =>
                  (calls[k].state = "holding" /\ builderMutex[calls[k].b]))
    /\ [][Waiting # {} => calls' = calls]_vars

\* Inside a callback of a Build on Builder 1, a Build on Builder 2 went
\* ahead, and from its callback a RegisterType on Builder 1 is blocked.
C30_Witness ==
    /\ Len(calls) = 3
    /\ calls[1] = Call("Build", 1, "", "holding")
    /\ calls[2].op = "Build" /\ calls[2].b = 2 /\ calls[2].state = "holding"
    /\ calls[3].op = "RegisterType" /\ calls[3].b = 1 /\ calls[3].state = "waiting"

====
